---------------------------- MODULE Spec2Model ----------------------------
(***************************************************************************)
(* A model of the voxel game engine: the Dimension (chunk map, get/set,    *)
(* streaming), the Game orchestrator loop (tick, event application,        *)
(* broadcast), the Client per-frame update with its detached meshing       *)
(* workers, the BlockAllocator and the memory pool built on it, the        *)
(* MeshSimplifier, the VoxelArray with the events applied to it, the      *)
(* conversion of block positions to chunk keys, the client's raycast       *)
(* loops, the connection threads, the BlockRegistry, the fixed timestep   *)
(* of the main loop and the Renderer's swapchain recovery.                 *)
(*                                                                         *)
(* Coordinates.  World and observer positions are triples <<x, y, z>> of   *)
(* integers.  The program keeps observer positions as f32; the model       *)
(* draws them from integer points, for which the f32 sums of squares and   *)
(* their square roots compare with 64.0 and 68.0 exactly as the integer    *)
(* squared distances compare with 64^2 and 68^2.                           *)
(*                                                                         *)
(* The chunk map is followed on a finite set of chunk-grid keys (the       *)
(* domain of `chunks`).  retain() and the generation loops decide every    *)
(* key on its own, so the map restricted to these keys behaves exactly as  *)
(* the full map does on them.                                              *)
(***************************************************************************)
EXTENDS Integers, Sequences, FiniteSets, TLC

VARIABLES
    \* ---- Dimension
    chunks,         \* Dimension.chunks: chunk-grid key -> entry id, 0 = absent
    entries,        \* the ChunkEntry objects behind the Arcs: id -> record
    observers,      \* the observer positions of the latest streaming pass
    \* ---- Game orchestrator
    mode,           \* "stream" | "client" | "server" | "alloc" | "pool" |
                    \* "mesh" | "array" | "coord" | "dimension" |
                    \* "raycast" | "registry" | "timestep" | "renderer": the part of
                    \* the program that runs
    pc,             \* position of the orchestrator thread in Game::run
    running,        \* Game::run's local `running`
    ticks_due,      \* how many times `since_tick >= TICK_LENGTH` still holds
    current_server_tick,
    bus_queue,      \* events pushed to the event bus, not yet processed
    drained,        \* the Vec collected from voxel_event_receiver in this tick
    results,        \* apply_event's result for each event of this tick so far
    event_history,  \* Game.event_history
    players,        \* Game.players: sequence of connections (PlayerClient)
    new_players,    \* the accept thread's channel of new PlayerClients
    sockets,        \* connection -> its stream, its two channels, its thread
    \* ---- Client
    player_pos,     \* Client.player.position
    pending_meshes, \* Client.pending_meshes: sequence of job ids
    chunk_meshes,   \* Client.chunk_meshes: key -> mesh or NoMesh
    workers,        \* job id -> the detached meshing thread and its PendingMesh
    update_result,  \* what the latest Client::update returned
    blocked,        \* TRUE while the orchestrator waits inside Dimension::set
    \* ---- BlockAllocator
    allocs,         \* BlockAllocator.allocs: set of [id, start, end]
    last_call,      \* the latest allocator call and what it returned
    \* ---- AutoMemoryPool
    pool_chunks,    \* PoolAllocator.chunks: chunk id -> its BlockAllocator
    blocks,         \* the AutoMemoryPoolBlocks alive: [chunk, id, offset, size]
    alloc_thread,   \* the thread inside AutoMemoryPool::alloc_generic
    drop_thread,    \* the thread inside AutoMemoryPoolBlock::drop
    \* ---- MeshSimplifier
    mesh_in,        \* the slice given to process_slice / the chunk given to
                    \* generate_quads
    mesh_out,       \* what the call returned
    \* ---- VoxelArray and voxel events
    array,          \* a VoxelArray: [size_x, size_y, size_z, data]
    event,          \* the voxel event at hand: [pos, new_value]
    applied,        \* how often it was applied, and what get returned after
    \* ---- coordinate conversion
    conv,           \* a call of blockpos_to_chunk: [point, chunk_size, done,
                    \* chunkpos]
    \* ---- Dimension::get and Dimension::set called directly
    access,         \* the latest call and what it returned
    \* ---- Client::update: one click raycast
    ray,            \* the VoxelRaycast, the event it led to, selected_block
    \* ---- BlockRegistry
    registry,       \* [id_to_name, name_to_id] and the latest register_block
    \* ---- Game::run: the fixed timestep
    timer,          \* [since_tick, ticks, elapsed]: the accumulator, the tick
                    \* counter, and all the time added to the accumulator
    renderer        \* the Renderer: swapchain, images, depth buffer and
                    \* framebuffers by the swapchain's generation, the
                    \* stale flag, and where draw stands

dimVars    == <<chunks, entries, observers>>
gameVars   == <<pc, running, ticks_due, current_server_tick, bus_queue,
                drained, results, event_history>>
serverVars == <<players, new_players, sockets>>
clientVars == <<player_pos, pending_meshes, chunk_meshes, workers,
                update_result, blocked>>
allocVars  == <<allocs, last_call>>
poolVars   == <<pool_chunks, blocks, alloc_thread, drop_thread>>
meshVars   == <<mesh_in, mesh_out>>
arrayVars  == <<array, event, applied>>
utilVars   == <<conv, access, ray, registry, timer, renderer>>
\* the state of the library parts, which Game::run never touches
libVars    == <<allocVars, poolVars, meshVars, arrayVars, utilVars>>
\* everything but utilVars
coreVars   == <<dimVars, gameVars, serverVars, clientVars, allocVars,
                poolVars, meshVars, arrayVars, mode>>
vars == <<dimVars, gameVars, serverVars, clientVars, libVars, mode>>

---------------------------------------------------------------------------
(* Bounds of the model.                                                    *)

MaxEntries == 4      \* ChunkEntry objects alive at once (map, workers, meshes)
MaxJobs    == 2      \* meshing jobs alive at once
MaxDiag    == 40     \* observers stand at Diag(d), d = MaxDiag, MaxDiag - 2,
DiagSpan   == 3      \* ... down to MaxDiag - 2 * DiagSpan
MaxPlayers == 2      \* observers of one serverside pass / connected players
MaxBlockID == 1      \* block ids 0 (air) .. MaxBlockID
MaxChunks  == 2      \* chunks of device memory one PoolAllocator can get
MaxPoolBlocks == 2   \* AutoMemoryPoolBlocks alive at once
MaxSlice   == 3      \* process_slice is given square slices of side 1..MaxSlice
MeshSide   == 2      \* generate_quads is given chunks of MeshSide^3 voxels
MaxSide    == 2      \* the longest axis of a VoxelArray
MaxApplications == 2 \* how often the event at hand is applied to a VoxelArray
MaxNear    == 25     \* block coordinates near zero are -MaxNear..MaxNear
FarSpan    == 16     \* block coordinates near 2^24 are 2^24 - 1 .. 2^24 + FarSpan
MaxRaySteps == 66    \* iterations of a raycast loop that are followed
MaxNames   == 4      \* block names that may be registered
MaxTime    == 300    \* milliseconds of the main loop that are followed
MaxSwapchains == 6   \* swapchains the renderer may create, the first included

---------------------------------------------------------------------------
(* Program constants.                                                      *)

CHUNK_STATE_DIRTY   == 0
CHUNK_STATE_WRITING == 1
CHUNK_STATE_CLEAN   == 2
CHUNK_RADIUS        == 2
ChunkSize           == 16     \* Dimension::new: chunk_size = (16, 16, 16)
CHUNK_DISTANCE      == CHUNK_RADIUS * 2 * 16
RETAIN_RADIUS       == CHUNK_DISTANCE + 4

Ids      == 1..MaxEntries
Jobs     == 1..MaxJobs
\* a ChunkEntry: data (behind the RwLock, with its count of read guards),
\* state, bounds
NoEntry  == [bounds |-> <<>>, state |-> -1, data |-> <<>>, readers |-> 0]
\* a Mesh, known by the ChunkEntry and the voxels it was generated from
NoMesh   == [origin |-> 0, from |-> <<>>]
\* a meshing job: the thread (wpc), the ChunkEntry its closure holds, the
\* position it was pushed with, and its PendingMesh slot
NoJob    == [key |-> <<>>, entry |-> 0, wpc |-> "none", slot |-> NoMesh]
Conns    == 1..MaxPlayers
\* a connection: the TcpStream (inbound: what the remote client wrote and
\* the thread has not decoded yet), the two channels (recv_from, send_to)
\* and the state of its thread
NoConn   == [state |-> "none", inbound |-> <<>>, recv_from |-> <<>>,
             send_to |-> <<>>]

---------------------------------------------------------------------------
(* Coordinate arithmetic.                                                  *)

Abs(i) == IF i < 0 THEN -i ELSE i

\* floor(a / b) for b > 0
FloorDiv(a, b) == a \div b

\* `f as i32` for an f32 quotient: truncation toward zero
TruncDiv(a, b) == IF a >= 0 THEN a \div b ELSE -((-a) \div b)

\* `i as f32` (round to nearest, ties to even) for |i| < 2^25: exact up to
\* 2^24; above, odd integers go to the neighbour that is a multiple of 4.
ToF32(i) ==
    IF Abs(i) <= 16777216 \/ i % 2 = 0 THEN i
    ELSE IF (i + 1) % 4 = 0 THEN i + 1 ELSE i - 1

\* Each axis is (point as f32 / size as f32).floor() as i32.  The f32
\* quotient of an integer below 2^25 by 16 is exact, so only the
\* conversion of the coordinate rounds.
blockpos_to_chunk(point) ==
    <<FloorDiv(ToF32(point[1]), ChunkSize),
      FloorDiv(ToF32(point[2]), ChunkSize),
      FloorDiv(ToF32(point[3]), ChunkSize)>>

chunkpos_to_block(key) ==
    <<key[1] * ChunkSize, key[2] * ChunkSize, key[3] * ChunkSize>>

\* The centre is origin + size / 2 on each axis.
chunkpos_to_center(key) ==
    <<key[1] * ChunkSize + ChunkSize \div 2,
      key[2] * ChunkSize + ChunkSize \div 2,
      key[3] * ChunkSize + ChunkSize \div 2>>

RECURSIVE Log2Floor(_)
\* the exponent of the binade of n >= 1: 2^e <= n < 2^(e+1)
Log2Floor(n) == IF n < 2 THEN 0 ELSE 1 + Log2Floor(n \div 2)

\* the exponent of the f32 values next to the integer t # 0 on the side of
\* t - 1: their spacing is 2^(e - 23)
BinadeBelow(t) ==
    IF t < 0 THEN Log2Floor(-t)
    ELSE IF 2 ^ Log2Floor(t) = t THEN Log2Floor(t) - 1 ELSE Log2Floor(t)

\* the f32 quotient a / b with remainder r > 0, which lies between the
\* integers t - 1 and t, rounds to t: it is nearer to t than half the
\* spacing (a quotient of two f32 values is never a tie).  For |t| <= 2^23.
RoundsUpTo(t, r, b) ==
    /\ t # 0
    /\ 2 * (b - r) * 2 ^ (23 - BinadeBelow(t)) < b

\* (a as f32 / b as f32).floor() as i32 for an i32 a and a small u32 b
DivF32Floor(a, b) ==
    LET n == ToF32(a)
        k == FloorDiv(n, b)
        r == n - k * b
    IN IF r # 0 /\ RoundsUpTo(k + 1, r, b) THEN k + 1 ELSE k

\* a variant of the division above in exact integer arithmetic
DivExactFloor(a, b) == FloorDiv(a, b)

\* blockpos_to_chunk for any chunk size
blockpos_to_chunk_sized(point, chunk_size) ==
    <<DivF32Floor(point[1], chunk_size[1]),
      DivF32Floor(point[2], chunk_size[2]),
      DivF32Floor(point[3], chunk_size[3])>>

\* Point3::distance squared.  An axis difference beyond DistCap is taken as
\* DistCap: the distance is then far above every radius it is compared
\* with, and the squares stay within the integers of the checker.
DistCap == 64 * ChunkSize
Clamp(d) == IF Abs(d) > DistCap THEN DistCap ELSE Abs(d)
Dist2(a, b) ==
    Clamp(a[1] - b[1]) * Clamp(a[1] - b[1])
        + Clamp(a[2] - b[2]) * Clamp(a[2] - b[2])
        + Clamp(a[3] - b[3]) * Clamp(a[3] - b[3])

\* VoxelRange{lower: chunk_origin, upper: chunk_origin + chunk_size}
BoundsOf(key) ==
    [lower |-> chunkpos_to_block(key),
     upper |-> <<chunkpos_to_block(key)[1] + ChunkSize,
                 chunkpos_to_block(key)[2] + ChunkSize,
                 chunkpos_to_block(key)[3] + ChunkSize>>]

\* VoxelRange::get_local_unsigned(coord) is Some exactly for coord in range
InBounds(coord, b) ==
    \A a \in 1..3 : b.lower[a] <= coord[a] /\ coord[a] < b.upper[a]

---------------------------------------------------------------------------
(* Streaming: Dimension::load_unload_chunks_{clientside, serverside}.     *)

\* the retain closure of a variant with no hysteresis: the generation
\* radius decides
KeepAtGenerationRadius(key, obs) ==
    \E i \in 1..Len(obs) :
        Dist2(chunkpos_to_center(key), obs[i]) < CHUNK_DISTANCE * CHUNK_DISTANCE

\* the retain closure of a variant whose retention radius lies 4.0 inside
\* the generation radius
KeepInsideGeneration(key, obs) ==
    \E i \in 1..Len(obs) :
        Dist2(chunkpos_to_center(key), obs[i])
            < (CHUNK_DISTANCE - 4) * (CHUNK_DISTANCE - 4)

\* the retain closure of a variant that asks every observer to be near
KeepNearAll(key, obs) ==
    \A i \in 1..Len(obs) :
        Dist2(chunkpos_to_center(key), obs[i]) < RETAIN_RADIUS * RETAIN_RADIUS

\* the retain closure: keep iff dist < RETAIN_RADIUS for some observer
\* (clientside: obs is the one player position)
Keep(key, obs) ==
    \E i \in 1..Len(obs) :
        Dist2(chunkpos_to_center(key), obs[i]) < RETAIN_RADIUS * RETAIN_RADIUS

Retained(ch, obs) ==
    [k \in DOMAIN ch |-> IF ch[k] # 0 /\ Keep(k, obs) THEN ch[k] ELSE 0]

\* player_{x,y,z}_in_chunks
PlayerChunk(pos) ==
    <<TruncDiv(pos[1], ChunkSize), TruncDiv(pos[2], ChunkSize),
      TruncDiv(pos[3], ChunkSize)>>

\* the three nested ranges (p - CHUNK_RADIUS)..(p + CHUNK_RADIUS + 1)
InLoops(key, pos) ==
    \A a \in 1..3 :
        /\ PlayerChunk(pos)[a] - CHUNK_RADIUS <= key[a]
        /\ key[a] < PlayerChunk(pos)[a] + CHUNK_RADIUS + 1

\* the body of the loops for one absent key: generate iff dist < CHUNK_DISTANCE
Generates(key, pos) ==
    /\ InLoops(key, pos)
    /\ Dist2(chunkpos_to_center(key), pos) < CHUNK_DISTANCE * CHUNK_DISTANCE

\* The keys a pass inserts.  A key already present is skipped (continue),
\* so going through the observers one after the other inserts the union.
ToInsert(ch, obs) ==
    {k \in DOMAIN ch : ch[k] = 0 /\ \E i \in 1..Len(obs) : Generates(k, obs[i])}

\* PerlinGenerator::generate restricted to the followed voxels: a cell with
\* y <= 0 is at or below every height the noise can give (height_abs >= 0)
\* and gets a block id in 1..4; the model takes 1.
Generate(key, voxels) ==
    [v \in {w \in voxels : InBounds(w, BoundsOf(key))} |->
        IF v[2] <= 0 THEN 1 ELSE 0]

NewEntry(key, voxels) ==
    [bounds |-> BoundsOf(key), state |-> CHUNK_STATE_DIRTY,
     data |-> Generate(key, voxels), readers |-> 0]

\* lexicographic order of the cx, cy, cz loops
KeyLess(a, b) ==
    \/ a[1] < b[1]
    \/ a[1] = b[1] /\ a[2] < b[2]
    \/ a[1] = b[1] /\ a[2] = b[2] /\ a[3] < b[3]

MinKey(keys) == CHOOSE k \in keys : \A o \in keys : o = k \/ KeyLess(k, o)
MinId(ids) == CHOOSE i \in ids : \A o \in ids : i <= o

\* Arc::new for each inserted key: a ChunkEntry object not in use
RECURSIVE Place(_, _, _)
Place(ch, keys, free) ==
    IF keys = {} THEN ch
    ELSE LET k == MinKey(keys)
             i == MinId(free)
         IN Place([ch EXCEPT ![k] = i], keys \ {k}, free \ {i})

\* entry ids some Arc (or a mesh made from the entry) still refers to
Referenced(ch, ws, cm) ==
    {ch[k] : k \in DOMAIN ch} \cup {ws[j].entry : j \in DOMAIN ws}
        \cup {ws[j].slot.origin : j \in DOMAIN ws}
        \cup {cm[k].origin : k \in DOMAIN cm}

\* dropping the last Arc frees the ChunkEntry
Collect(es, refs) == [i \in Ids |-> IF i \in refs THEN es[i] ELSE NoEntry]

\* One whole pass over `obs`: retain, then generate.
\* Enabled when enough ChunkEntry objects are free (the model's bound).
StreamingPass(obs, voxels) ==
    LET kept == Retained(chunks, obs)
        ins  == ToInsert(kept, obs)
        free == Ids \ Referenced(kept, workers, chunk_meshes)
    IN /\ Cardinality(free) >= Cardinality(ins)
       /\ LET ch == Place(kept, ins, free)
          IN /\ chunks' = ch
             /\ entries' = Collect(
                    [i \in Ids |->
                        IF \E k \in ins : ch[k] = i
                        THEN NewEntry(CHOOSE k \in ins : ch[k] = i, voxels)
                        ELSE entries[i]],
                    Referenced(ch, workers, chunk_meshes))
             /\ observers' = obs

load_unload_chunks_clientside(pos, voxels) == StreamingPass(<<pos>>, voxels)
load_unload_chunks_serverside(positions, voxels) == StreamingPass(positions, voxels)

---------------------------------------------------------------------------
(* SpecStream: streaming passes alone, with observers that move freely.    *)

PlayerStart == <<16, 32, 16>>       \* Game::new: player.position
Diag(d) == <<8 + d, 8 + d, 8 + d>>

StreamKeys == {<<0, 0, 0>>, <<1, 1, 1>>, <<-1, -1, -1>>}
DiagPositions == {Diag(MaxDiag - 2 * i) : i \in 0..DiagSpan}
StreamPositions == {PlayerStart, <<-8, -8, -8>>} \cup DiagPositions

SeqsUpTo(S, n) == UNION {[1..m -> S] : m \in 0..n}

\* the library parts before anything was called
NoBlock == [chunk |-> 0, id |-> 0, offset |-> 0, size |-> 0]
NoPoolChunk == [live |-> FALSE, allocs |-> {}, lock |-> "free"]
NoRequest == [pc |-> "idle", size |-> 0, alignment |-> 0, tried |-> {},
              chunk |-> 0]
NoDrop == [pc |-> "idle", block |-> NoBlock]
NoMeshInput == [kind |-> "none", side |-> 0, cells |-> <<>>]
NoArray == [size_x |-> 0, size_y |-> 0, size_z |-> 0, data |-> <<>>]
NoEvent == [pos |-> <<0, 0, 0>>, new_value |-> 0]
NotApplied == [count |-> 0, result |-> "none", read |-> FALSE,
               got |-> [some |-> FALSE, value |-> 0]]

PoolIdle ==
    /\ pool_chunks = [c \in 1..MaxChunks |-> NoPoolChunk]
    /\ blocks = {}
    /\ alloc_thread = NoRequest
    /\ drop_thread = NoDrop

NotMeshed == [called |-> FALSE, result |-> <<>>]

MeshIdle == mesh_in = NoMeshInput /\ mesh_out = NotMeshed

NoConv == [point |-> <<0, 0, 0>>, chunk_size |-> <<0, 0, 0>>, done |-> FALSE,
           chunkpos |-> <<0, 0, 0>>]
ArrayIdle == array = NoArray /\ event = NoEvent /\ applied = NotApplied
NoAccess == [op |-> "none", pos |-> <<0, 0, 0>>, value |-> 0,
             result |-> "none", got |-> 0]
NoRay == [state |-> "none", button |-> 0, dir |-> <<0, 0, 0>>,
          pos |-> <<0, 0, 0>>, last |-> <<0, 0, 0>>, steps |-> 0,
          outcome |-> "none", selected_block |-> 0]
NoRegistry == [id_to_name |-> <<>>, name_to_id |-> <<>>,
               call |-> [name |-> 0, panicked |-> FALSE, new_id |-> 0]]
\* No Renderer yet.  The swapchain (with its images) and the depth buffer
\* are known by the generation they were created in and by their extent; a
\* framebuffer set by the images and the depth buffer it was built from, and
\* NoFramebuffers is the field's None.
NoFramebuffers == [images |-> 0, depth_buffer |-> 0]
NoRenderer == [pc |-> "none", swapchain |-> [generation |-> 0, dimensions |-> 0], depth_buffer |-> [generation |-> 0, dimensions |-> 0], framebuffers |-> NoFramebuffers, framebuffers_lines |-> NoFramebuffers, recreate_swapchain |-> FALSE, built |-> <<>>, outcome |-> "none"]
NoTimer == [pc |-> "none", since_tick |-> 0, ticks |-> 0, elapsed |-> 0]
ConvIdle == conv = NoConv
AccessIdle == access = NoAccess
RayIdle == ray = NoRay
RegistryIdle == registry = NoRegistry
TimerIdle == timer = NoTimer
RendererIdle == renderer = NoRenderer
UtilIdle ==
    ConvIdle /\ AccessIdle /\ RayIdle /\ RegistryIdle /\ TimerIdle /\ RendererIdle

Idle ==
    /\ pc = "idle" /\ running = TRUE /\ ticks_due = 0 /\ current_server_tick = 0
    /\ bus_queue = <<>> /\ drained = <<>> /\ results = <<>>
    /\ event_history = <<>>
    /\ players = <<>> /\ new_players = <<>>
    /\ sockets = [c \in Conns |-> NoConn]
    /\ player_pos = PlayerStart /\ pending_meshes = <<>>
    /\ workers = [j \in Jobs |-> NoJob]
    /\ update_result = "none" /\ blocked = FALSE
    /\ allocs = {}
    /\ last_call = [op |-> "none", size |-> 0, alignment |-> 0,
                    some |-> FALSE, id |-> 0, offset |-> 0]
    /\ PoolIdle /\ MeshIdle /\ ArrayIdle /\ UtilIdle

\* nothing of the game, the Dimension and the library parts is in use
Quiet ==
    /\ chunks = [k \in StreamKeys |-> 0]
    /\ chunk_meshes = [k \in StreamKeys |-> NoMesh]
    /\ entries = [i \in Ids |-> NoEntry]
    /\ observers = <<>>
    /\ pc = "idle" /\ running = TRUE /\ ticks_due = 0 /\ current_server_tick = 0
    /\ bus_queue = <<>> /\ drained = <<>> /\ results = <<>>
    /\ event_history = <<>>
    /\ players = <<>> /\ new_players = <<>>
    /\ sockets = [c \in Conns |-> NoConn]
    /\ player_pos = PlayerStart /\ pending_meshes = <<>>
    /\ workers = [j \in Jobs |-> NoJob]
    /\ update_result = "none" /\ blocked = FALSE
    /\ allocs = {}
    /\ last_call = [op |-> "none", size |-> 0, alignment |-> 0,
                    some |-> FALSE, id |-> 0, offset |-> 0]
    /\ PoolIdle /\ MeshIdle /\ ArrayIdle

InitStream ==
    /\ mode = "stream"
    /\ chunks = [k \in StreamKeys |-> 0]
    /\ chunk_meshes = [k \in StreamKeys |-> NoMesh]
    /\ entries = [i \in Ids |-> NoEntry]
    /\ observers = <<>>
    /\ Idle

StreamClientside ==
    /\ mode = "stream"
    /\ \E p \in StreamPositions : load_unload_chunks_clientside(p, {})
    /\ UNCHANGED <<gameVars, serverVars, clientVars, libVars, mode>>

StreamServerside ==
    /\ mode = "stream"
    /\ \E ps \in SeqsUpTo(DiagPositions, MaxPlayers) :
            load_unload_chunks_serverside(ps, {})
    /\ UNCHANGED <<gameVars, serverVars, clientVars, libVars, mode>>

NextStream == StreamClientside \/ StreamServerside

SpecStream == InitStream /\ [][NextStream]_vars

---------------------------------------------------------------------------
(* C1: streaming hysteresis.  In every streaming pass, a key that was      *)
(* absent and is present afterwards has some observer of the pass closer   *)
(* than 64.0 to its centre, and a key whose entry is gone (or replaced)    *)
(* afterwards has every observer of the pass at 68.0 or farther.  So an    *)
(* observer moving between 65.0 and 67.0 from a chunk's centre neither     *)
(* loads nor unloads it.                                                   *)
StreamingHysteresis ==
    [][\A k \in DOMAIN chunks :
          /\ (chunks[k] = 0 /\ chunks'[k] # 0) =>
                \E i \in 1..Len(observers') :
                    Dist2(chunkpos_to_center(k), observers'[i]) < 64 * 64
          /\ (chunks[k] # 0 /\ chunks'[k] # chunks[k]) =>
                \A i \in 1..Len(observers') :
                    Dist2(chunkpos_to_center(k), observers'[i]) >= 68 * 68]_vars

\* chunk (0,0,0) is still loaded after a pass whose only observer stood
\* between 65.0 and 67.0 from its centre (3 * 38^2 = 4332, 65.8^2)
StreamingHysteresisWitness ==
    /\ mode = "stream"
    /\ chunks[<<0, 0, 0>>] # 0
    /\ observers = <<Diag(38)>>

---------------------------------------------------------------------------
(* Dimension::get and Dimension::set.                                      *)

MaxTick    == 3      \* ticks run in one behaviour
MaxEvents  == 2      \* events sent and not yet failed (history included)

\* a VoxelEvent::SetOne(OneVoxelChange{new_value, pos})
SetOne(p, b) == [pos |-> p, new_value |-> b]

Loaded(coord) ==
    /\ blockpos_to_chunk(coord) \in DOMAIN chunks
    /\ chunks[blockpos_to_chunk(coord)] # 0

EntryAt(coord) == chunks[blockpos_to_chunk(coord)]

\* a variant of Lookup that reports an absent chunk as a bounds error
LookupBoundsOnly(coord) ==
    IF ~Loaded(coord) THEN "ChunkBoundsInvalid"
    ELSE IF ~InBounds(coord, entries[EntryAt(coord)].bounds)
         THEN "ChunkBoundsInvalid"
         ELSE "Ok"

\* What get and set find before they take the entry's lock: the map lookup,
\* then the size check (every entry is built with chunk_size, so it
\* passes), then bounds.get_local_unsigned(coord).
Lookup(coord) ==
    IF ~Loaded(coord) THEN "NotLoaded"
    ELSE IF ~InBounds(coord, entries[EntryAt(coord)].bounds)
         THEN "ChunkBoundsInvalid"
         ELSE "Ok"

\* Dimension::get: Ok(voxel) or an error
DimensionGet(coord) ==
    [result |-> Lookup(coord),
     value  |-> IF Lookup(coord) = "Ok"
                THEN entries[EntryAt(coord)].data[coord] ELSE 0]

\* set waits in data.write() while a meshing worker holds a read guard
WriteLockBusy(coord) ==
    Lookup(coord) = "Ok" /\ entries[EntryAt(coord)].readers > 0

\* a variant of set that marks the chunk dirty on every successful write
DimensionSetAlwaysDirty(es, id, coord, value) ==
    [es EXCEPT ![id].state = CHUNK_STATE_DIRTY, ![id].data[coord] = value]

\* a variant that writes the value and leaves the state flag as it is
DimensionSetNeverDirty(es, id, coord, value) ==
    [es EXCEPT ![id].data[coord] = value]

\* the body of set under the write guard:
\* if current != value { state.store(DIRTY); locked.set(pos, value) }
DimensionSetLocked(es, id, coord, value) ==
    IF es[id].data[coord] # value
    THEN [es EXCEPT ![id].state = CHUNK_STATE_DIRTY, ![id].data[coord] = value]
    ELSE es

\* Dimension::set: the entries after the call (its result is Lookup(coord))
DimensionSet(coord, value) ==
    IF Lookup(coord) = "Ok"
    THEN DimensionSetLocked(entries, EntryAt(coord), coord, value)
    ELSE entries

\* VoxelEvent::apply_blind for SetOne: stor.set(pos, new_value), whose
\* result it returns
apply_blind(e) ==
    [storage |-> DimensionSet(e.pos, e.new_value), result |-> Lookup(e.pos)]

\* VoxelStorage::apply_event: e.apply_blind(self)?; Ok(())
apply_event(e) == apply_blind(e)

---------------------------------------------------------------------------
(* Game::run: the outer loop and the tick.                                 *)

IsClient == mode = "client"
IsServer == mode = "server"

RECURSIVE Flatten(_)
Flatten(ss) == IF ss = <<>> THEN <<>> ELSE Head(ss) \o Flatten(Tail(ss))

RECURSIVE VoxEvs(_)
\* the events of the VoxEv packets of a packet sequence, in order
VoxEvs(pkts) ==
    IF pkts = <<>> THEN <<>>
    ELSE IF Head(pkts).type = "VoxEv"
         THEN <<Head(pkts).ev>> \o VoxEvs(Tail(pkts))
         ELSE VoxEvs(Tail(pkts))

\* where the loop goes after the tick loop's condition is evaluated
AfterTicks(due) ==
    IF due > 0 THEN "tick" ELSE IF IsClient THEN "frame" ELSE "loop"

\* pl.send_to.send(packet): queued if the connection's thread still holds
\* the receiving end, dropped (send returns Err, ignored) otherwise
SendTo(conn, pkts) ==
    IF conn.state = "open"
    THEN [conn EXCEPT !.send_to = conn.send_to \o pkts]
    ELSE conn

\* a variant that replays the history newest first
HistoryPacketsNewestFirst ==
    [i \in 1..Len(event_history) |->
        [type |-> "VoxEv", ev |-> event_history[Len(event_history) + 1 - i]]]

HistoryPackets == [i \in 1..Len(event_history) |->
                      [type |-> "VoxEv", ev |-> event_history[i]]]

\* The top of `while running`: time passes (since_tick grows by any
\* amount), and a server takes at most one new player from the channel and
\* sends it the event history.
LoopTop ==
    /\ mode \in {"client", "server"}
    /\ pc = "loop" /\ running
    /\ \E due \in 0..(MaxTick - current_server_tick) :
          /\ ticks_due' = due
          /\ pc' = AfterTicks(due)
    /\ IF IsServer /\ new_players # <<>>
       THEN LET c == Head(new_players)
            IN /\ sockets' = [sockets EXCEPT ![c] = SendTo(@, HistoryPackets)]
               /\ players' = Append(players, c)
               /\ new_players' = Tail(new_players)
       ELSE UNCHANGED serverVars
    /\ UNCHANGED <<dimVars, clientVars, libVars, mode, running,
                   current_server_tick, bus_queue, drained, results,
                   event_history>>

\* `while running` is evaluated with running = false: run returns
LoopExit ==
    /\ mode \in {"client", "server"}
    /\ pc = "loop" /\ ~running
    /\ pc' = "stopped"
    /\ UNCHANGED <<dimVars, serverVars, clientVars, libVars, mode, running,
                   ticks_due, current_server_tick, bus_queue, drained,
                   results, event_history>>

\* The first half of a tick: every player's recv_from is drained and its
\* VoxEv packets are pushed to the bus; process() moves the bus to the
\* subscriber's channel; try_iter().collect() takes all of it.
TickPump ==
    /\ pc = "tick"
    /\ LET incoming == Flatten([i \in 1..Len(players) |->
                                  VoxEvs(sockets[players[i]].recv_from)])
       IN drained' = bus_queue \o incoming
    /\ bus_queue' = <<>>
    /\ results' = <<>>
    /\ sockets' = [c \in Conns |->
                     IF \E i \in 1..Len(players) : players[i] = c
                     THEN [sockets[c] EXCEPT !.recv_from = <<>>]
                     ELSE sockets[c]]
    /\ pc' = "apply"
    /\ UNCHANGED <<dimVars, clientVars, libVars, mode, running, ticks_due,
                   current_server_tick, event_history, players, new_players>>

\* a variant that takes the drained events last first
NextEventFromEnd == drained[Len(drained) - Len(results)]

\* the event the for loop is at
NextEvent == drained[Len(results) + 1]

\* a variant that records a successful event and tells no player
OnApplyResultHistoryOnly(e, r) ==
    /\ IF r = "Ok"
       THEN event_history' = Append(event_history, e)
       ELSE event_history' = event_history
    /\ sockets' = sockets
    /\ pc' = "apply" /\ running' = running

\* a variant that records and sends the event whatever the result
OnApplyResultAlways(e, r) ==
    /\ event_history' = Append(event_history, e)
    /\ sockets' = [c \in Conns |->
          IF \E i \in 1..Len(players) : players[i] = c
          THEN SendTo(sockets[c], <<[type |-> "VoxEv", ev |-> e]>>)
          ELSE sockets[c]]
    /\ pc' = "apply" /\ running' = running

\* the match on apply_event's result: Ok records the event and sends it to
\* every player; Err is logged and the for loop goes on
OnApplyResult(e, r) ==
    /\ IF r = "Ok"
       THEN /\ event_history' = Append(event_history, e)
            /\ sockets' = [c \in Conns |->
                  IF \E i \in 1..Len(players) : players[i] = c
                  THEN SendTo(sockets[c], <<[type |-> "VoxEv", ev |-> e]>>)
                  ELSE sockets[c]]
       ELSE UNCHANGED <<event_history, sockets>>
    /\ pc' = "apply" /\ running' = running

\* the orchestrator reaches data.write() while a worker reads: it waits
TickApplyBlock ==
    /\ pc = "apply" /\ Len(results) < Len(drained)
    /\ WriteLockBusy(NextEvent.pos)
    /\ ~blocked
    /\ blocked' = TRUE
    /\ UNCHANGED <<dimVars, gameVars, serverVars, libVars, mode, player_pos,
                   pending_meshes, chunk_meshes, workers, update_result>>

\* one iteration of the for loop over the drained events
TickApply ==
    /\ pc = "apply" /\ Len(results) < Len(drained)
    /\ ~WriteLockBusy(NextEvent.pos)
    /\ entries' = apply_event(NextEvent).storage
    /\ results' = Append(results, apply_event(NextEvent).result)
    /\ OnApplyResult(NextEvent, apply_event(NextEvent).result)
    /\ blocked' = FALSE
    /\ UNCHANGED <<chunks, observers, libVars, mode, ticks_due,
                   current_server_tick, bus_queue, drained, players,
                   new_players, player_pos, pending_meshes, chunk_meshes,
                   workers, update_result>>

\* positions of the connected players: PlayerClient.pos is set when the
\* connection is accepted and never written again
PlayerClientPos == <<0, 0, 0>>

\* The client follows the chunk below the start position and one chunk
\* beyond 2^24 on the z axis; there the f32 conversion in blockpos_to_chunk
\* sends z = 16777231 to chunk 1048577, whose bounds begin at 16777232.
ClientKeys == {<<0, 0, 0>>, <<0, 0, 1048577>>}
FarPos == <<8, 0, 16777232>>
ClientVoxels == {<<6, 0, 7>>, <<8, 0, 16777232>>, <<8, 0, 16777231>>}
ClientPositions == {PlayerStart, FarPos}

\* The server follows the chunk at its players' position.
ServerKeys == {<<0, 0, 0>>}
ServerVoxels == {<<6, 0, 7>>}

\* The second half of a tick: streaming around the local player (client)
\* or around every connected player (server), then the tick counters.
TickStream ==
    /\ pc = "apply" /\ Len(results) = Len(drained)
    /\ IF IsClient
       THEN load_unload_chunks_clientside(player_pos, ClientVoxels)
       ELSE load_unload_chunks_serverside(
                [i \in 1..Len(players) |-> PlayerClientPos], ServerVoxels)
    /\ current_server_tick' = current_server_tick + 1
    /\ ticks_due' = ticks_due - 1
    /\ pc' = AfterTicks(ticks_due - 1)
    /\ drained' = <<>>
    /\ results' = <<>>
    /\ UNCHANGED <<serverVars, clientVars, libVars, mode, running,
                   bus_queue, event_history>>

---------------------------------------------------------------------------
(* Client::update and the detached meshing workers.                        *)

\* how far along each axis a sight line is followed: the generation loops
\* cover CHUNK_RADIUS chunks on every side of the player
RaycastReach == CHUNK_RADIUS * ChunkSize

InReach(p) == \A a \in 1..3 : Abs(p[a] - player_pos[a]) <= RaycastReach

Adjacent(p, q) ==
    Abs(p[1] - q[1]) + Abs(p[2] - q[2]) + Abs(p[3] - q[3]) = 1

\* the voxels a raycast from the player can stop at: get returns Ok with
\* a block that is not air
RaycastHits ==
    {p \in ClientVoxels :
        /\ InReach(p)
        /\ DimensionGet(p).result = "Ok"
        /\ DimensionGet(p).value # 0}

\* raycast.pos.get_neighbor(raycast.get_last_direction().opposite()) for a
\* hit at p: the voxel the ray came from, which get found to be air; for
\* a hit on the voxel the player stands in no step was taken, and the
\* neighbour is the one given by the stepper's initial direction
RaycastBefore(p) ==
    {q \in ClientVoxels :
        /\ Adjacent(p, q)
        /\ \/ p = player_pos
           \/ DimensionGet(q).result = "Ok" /\ DimensionGet(q).value = 0}

\* the SetOne events one update can send: left release clears the hit
\* voxel, right release sets the neighbour to the selected block
ClickEvents ==
    {SetOne(p, 0) : p \in RaycastHits}
        \cup UNION {{SetOne(q, b) : q \in RaycastBefore(p)} :
                        p \in RaycastHits, b \in 1..MaxBlockID}

DirtyKeys ==
    {k \in DOMAIN chunks :
        chunks[k] # 0 /\ entries[chunks[k]].state = CHUNK_STATE_DIRTY}

FreeJobs(ws) == {j \in Jobs : ws[j].wpc = "none"}

RECURSIVE Spawn(_, _)
\* the loop over chunks.iter(): every dirty entry is flipped to Writing, a
\* PendingMesh is pushed with its position, and a thread is spawned
Spawn(st, keys) ==
    IF keys = {} THEN st
    ELSE LET k == MinKey(keys)
             j == MinId(FreeJobs(st.ws))
         IN Spawn([ws |-> [st.ws EXCEPT ![j] =
                              [key |-> k, entry |-> chunks[k],
                               wpc |-> "spawned", slot |-> NoMesh]],
                   pm |-> Append(st.pm, j),
                   es |-> [st.es EXCEPT
                              ![chunks[k]].state = CHUNK_STATE_WRITING]],
                  keys \ {k})

\* update returns Err before it has done anything (set_cursor_position(..)?)
UpdateErr ==
    /\ pc = "frame"
    /\ update_result' = "err"
    /\ pc' = "loop"
    /\ UNCHANGED <<dimVars, serverVars, libVars, mode, running, ticks_due,
                   current_server_tick, bus_queue, drained, results,
                   event_history, player_pos, pending_meshes, chunk_meshes,
                   workers, blocked>>

\* update up to the spawn loop: window events (close, Escape, clicks),
\* player movement, and one worker for every dirty chunk
UpdateBegin ==
    /\ pc = "frame"
    /\ \E keep \in BOOLEAN : update_result' = IF keep THEN "continue" ELSE "stop"
    /\ \/ bus_queue' = bus_queue
       \/ /\ Len(event_history) + Len(bus_queue) < MaxEvents
          /\ \E e \in ClickEvents : bus_queue' = Append(bus_queue, e)
    /\ \E p \in ClientPositions : player_pos' = p
    /\ Cardinality(FreeJobs(workers)) >= Cardinality(DirtyKeys)
    /\ LET st == Spawn([ws |-> workers, pm |-> pending_meshes, es |-> entries],
                       DirtyKeys)
       IN /\ workers' = st.ws
          /\ pending_meshes' = st.pm
          /\ entries' = st.es
    /\ pc' = "harvest"
    /\ UNCHANGED <<chunks, observers, serverVars, libVars, mode, running,
                   ticks_due, current_server_tick, drained, results,
                   event_history, chunk_meshes, blocked>>

\* a variant that polls and inserts nothing
HarvestedNothing(cm, pm) == cm

RECURSIVE Harvested(_, _)
\* chunk_meshes after inserting, in list order, the mesh of every pending
\* job whose slot is full
Harvested(cm, pm) ==
    IF pm = <<>> THEN cm
    ELSE LET j == Head(pm)
         IN Harvested(IF workers[j].slot # NoMesh
                      THEN [cm EXCEPT ![workers[j].key] = workers[j].slot]
                      ELSE cm,
                      Tail(pm))

\* chunk_meshes.retain(|pos, _| loaded_chunk_list.contains(pos))
PruneMeshes(cm) == [k \in DOMAIN cm |-> IF chunks[k] # 0 THEN cm[k] ELSE NoMesh]

\* the rest of update: poll every PendingMesh, merge the finished ones
\* into the mesh cache, drop the meshes of positions not loaded, return
\* Ok(keep_running), which run assigns to running
UpdateHarvest ==
    /\ pc = "harvest"
    /\ LET done == {j \in Jobs : workers[j].slot # NoMesh}
           ws   == [j \in Jobs |->
                      IF j \in done
                      THEN IF workers[j].wpc = "exited" THEN NoJob
                           ELSE [workers[j] EXCEPT !.slot = NoMesh]
                      ELSE workers[j]]
           cm   == PruneMeshes(Harvested(chunk_meshes, pending_meshes))
       IN /\ pending_meshes' = SelectSeq(pending_meshes, LAMBDA j : j \notin done)
          /\ workers' = ws
          /\ chunk_meshes' = cm
          /\ entries' = Collect(entries, Referenced(chunks, ws, cm))
    /\ running' = (update_result = "continue")
    /\ pc' = "loop"
    /\ UNCHANGED <<chunks, observers, serverVars, libVars, mode, ticks_due,
                   current_server_tick, bus_queue, drained, results,
                   event_history, player_pos, update_result, blocked>>

\* The workers are detached threads: they run until run has returned (the
\* process then exits).
\* The worker takes the read guard: entry_arc.data.read().  A reader does
\* not pass a writer that is already waiting (the lock is task-fair).
WorkerLock(j) ==
    /\ pc # "stopped"
    /\ workers[j].wpc = "spawned"
    /\ ~(blocked /\ EntryAt(NextEvent.pos) = workers[j].entry)
    /\ workers' = [workers EXCEPT ![j].wpc = "reading"]
    /\ entries' = [entries EXCEPT ![workers[j].entry].readers = @ + 1]
    /\ UNCHANGED <<chunks, observers, gameVars, serverVars, libVars, mode,
                   player_pos, pending_meshes, chunk_meshes, update_result,
                   blocked>>

\* generate_mesh and complete_pending_mesh: the slot holds the mesh
WorkerComplete(j) ==
    /\ pc # "stopped"
    /\ workers[j].wpc = "reading"
    /\ workers' = [workers EXCEPT ![j].wpc = "finishing",
                                  ![j].slot =
                                      [origin |-> workers[j].entry,
                                       from |-> entries[workers[j].entry].data]]
    /\ UNCHANGED <<dimVars, gameVars, serverVars, libVars, mode, player_pos,
                   pending_meshes, chunk_meshes, update_result, blocked>>

\* state.store(CHUNK_STATE_CLEAN), then the closure ends: the read guard
\* and the Arc are dropped
WorkerClean(j) ==
    /\ pc # "stopped"
    /\ workers[j].wpc = "finishing"
    /\ LET ws == [workers EXCEPT ![j] =
                    IF \E i \in 1..Len(pending_meshes) : pending_meshes[i] = j
                    THEN [@ EXCEPT !.wpc = "exited"]
                    ELSE NoJob]
       IN /\ workers' = ws
          /\ entries' = Collect(
                [entries EXCEPT ![workers[j].entry].state = CHUNK_STATE_CLEAN,
                                ![workers[j].entry].readers = @ - 1],
                Referenced(chunks, ws, chunk_meshes))
    /\ UNCHANGED <<chunks, observers, gameVars, serverVars, libVars, mode,
                   player_pos, pending_meshes, chunk_meshes, update_result,
                   blocked>>

---------------------------------------------------------------------------
(* SpecClient: a singleplayer game: the orchestrator and its workers.      *)

InitClient ==
    /\ mode = "client"
    /\ chunks = [k \in ClientKeys |-> 0]
    /\ chunk_meshes = [k \in ClientKeys |-> NoMesh]
    /\ entries = [i \in Ids |-> NoEntry]
    /\ observers = <<>>
    /\ pc = "loop" /\ running = TRUE /\ ticks_due = 0 /\ current_server_tick = 0
    /\ bus_queue = <<>> /\ drained = <<>> /\ results = <<>>
    /\ event_history = <<>>
    /\ players = <<>> /\ new_players = <<>>
    /\ sockets = [c \in Conns |-> NoConn]
    /\ player_pos = PlayerStart /\ pending_meshes = <<>>
    /\ workers = [j \in Jobs |-> NoJob]
    /\ update_result = "none" /\ blocked = FALSE
    /\ allocs = {}
    /\ last_call = [op |-> "none", size |-> 0, alignment |-> 0,
                    some |-> FALSE, id |-> 0, offset |-> 0]
    /\ PoolIdle /\ MeshIdle /\ ArrayIdle /\ UtilIdle

NextClient ==
    \/ LoopTop
    \/ LoopExit
    \/ TickPump
    \/ TickApplyBlock
    \/ TickApply
    \/ TickStream
    \/ UpdateErr
    \/ UpdateBegin
    \/ UpdateHarvest
    \/ \E j \in Jobs : WorkerLock(j)
    \/ \E j \in Jobs : WorkerComplete(j)
    \/ \E j \in Jobs : WorkerClean(j)

SpecClient == InitClient /\ [][NextClient]_vars

---------------------------------------------------------------------------
(* The server's connections: accept_clients and server_to_client_step.     *)

ServerEvents == {SetOne(<<6, 0, 7>>, 0), SetOne(<<6, 0, 7>>, 1)}

\* what a remote client writes to its stream
ClientPackets ==
    {[type |-> "VoxEv", ev |-> e] : e \in ServerEvents}
        \cup {[type |-> "Disconnect"]}

\* accept_clients: one accepted connection gets its two channels and its
\* thread, and the PlayerClient is sent to the orchestrator
ConnAccept(c) ==
    /\ IsServer /\ pc # "stopped"
    /\ sockets[c].state = "none"
    /\ \A d \in Conns : d < c => sockets[d].state # "none"
    /\ sockets' = [sockets EXCEPT ![c].state = "open"]
    /\ new_players' = Append(new_players, c)
    /\ UNCHANGED <<dimVars, gameVars, clientVars, libVars, mode, players>>

RECURSIVE InFlight(_)
\* packets written by the remote clients and not yet taken by the tick
InFlight(cs) ==
    IF cs = {} THEN 0
    ELSE LET c == CHOOSE x \in cs : TRUE
         IN Len(sockets[c].inbound) + Len(sockets[c].recv_from)
                + InFlight(cs \ {c})

\* the remote client writes one packet to the stream
ClientWrite(c) ==
    /\ IsServer /\ pc # "stopped"
    /\ sockets[c].state = "open"
    /\ InFlight(Conns) + (Len(drained) - Len(results)) + Len(event_history)
          < MaxEvents
    /\ \E pkt \in ClientPackets :
          sockets' = [sockets EXCEPT ![c].inbound = Append(@, pkt)]
    /\ UNCHANGED <<dimVars, gameVars, clientVars, libVars, mode, players,
                   new_players>>

\* a variant in which only a Disconnect ends the loop
keep_connection_on_kick(conn) ==
    ~(conn.inbound # <<>> /\ Head(conn.inbound).type = "Disconnect")

\* keep_connection at the end of one pass of the thread's loop
keep_connection(conn) ==
    /\ ~(conn.inbound # <<>> /\ Head(conn.inbound).type = "Disconnect")
    /\ \A i \in 1..Len(conn.send_to) : conn.send_to[i].type # "Kick"

\* One iteration of the connection thread's loop: decode at most one
\* packet and pass it on (Disconnect ends the loop), write every queued
\* outbound packet (Kick ends the loop); when the loop ends the stream is
\* shut down and the thread's channel ends are dropped.
ConnStep(c) ==
    /\ IsServer /\ pc # "stopped"
    /\ sockets[c].state = "open"
    /\ LET conn == sockets[c]
           got  == conn.inbound # <<>>
           keep == keep_connection(conn)
       IN sockets' = [sockets EXCEPT ![c] =
              [state     |-> IF keep THEN "open" ELSE "closed",
               inbound   |-> IF got THEN Tail(conn.inbound) ELSE <<>>,
               recv_from |-> IF got THEN Append(conn.recv_from, Head(conn.inbound))
                             ELSE conn.recv_from,
               send_to   |-> <<>>]]
    /\ UNCHANGED <<dimVars, gameVars, clientVars, libVars, mode, players,
                   new_players>>

---------------------------------------------------------------------------
(* SpecServer: a dedicated server and its remote clients.                  *)

InitServer ==
    /\ mode = "server"
    /\ chunks = [k \in ServerKeys |-> 0]
    /\ chunk_meshes = [k \in ServerKeys |-> NoMesh]
    /\ entries = [i \in Ids |-> NoEntry]
    /\ observers = <<>>
    /\ pc = "loop" /\ running = TRUE /\ ticks_due = 0 /\ current_server_tick = 0
    /\ bus_queue = <<>> /\ drained = <<>> /\ results = <<>>
    /\ event_history = <<>>
    /\ players = <<>> /\ new_players = <<>>
    /\ sockets = [c \in Conns |-> NoConn]
    /\ player_pos = PlayerStart /\ pending_meshes = <<>>
    /\ workers = [j \in Jobs |-> NoJob]
    /\ update_result = "none" /\ blocked = FALSE
    /\ allocs = {}
    /\ last_call = [op |-> "none", size |-> 0, alignment |-> 0,
                    some |-> FALSE, id |-> 0, offset |-> 0]
    /\ PoolIdle /\ MeshIdle /\ ArrayIdle /\ UtilIdle

NextServer ==
    \/ LoopTop
    \/ TickPump
    \/ TickApply
    \/ TickStream
    \/ \E c \in Conns : ConnAccept(c)
    \/ \E c \in Conns : ClientWrite(c)
    \/ \E c \in Conns : ConnStep(c)

SpecServer == InitServer /\ [][NextServer]_vars

---------------------------------------------------------------------------
(* BlockAllocator.                                                         *)

MaxAllocSize == 2                 \* sizes asked for are 1..MaxAllocSize
MaxBlocks    == 3                 \* blocks live at once
MaxExtent    == 7                 \* ends of the blocks that are followed
PoolSize     == 2 * MaxAllocSize        \* BlockAllocator::new(size)
Alignments   == {0, 1, 2, 3}
\* the sizes asked for: the small ones and the whole arena
AllocSizes   == (1..MaxAllocSize) \cup {PoolSize}

LiveIds(as) == {r.id : r \in as}

\* the orders in which a HashMap of these blocks can be iterated
IterationOrders(as) ==
    {f \in [1..Cardinality(as) -> as] :
        \A i, j \in 1..Cardinality(as) : i # j => f[i] # f[j]}

RECURSIVE get_first_free_id_from(_, _)
get_first_free_id_from(as, id) ==
    IF id \in LiveIds(as) THEN get_first_free_id_from(as, id + 1) ELSE id

\* a variant that starts counting at 2
get_first_free_id_from_two(as) == get_first_free_id_from(as, 2)

\* get_first_free_id: the first id from 1 that is not a key
get_first_free_id(as) == get_first_free_id_from(as, 1)

\* a variant that skips no bytes
AlignUpNot(e, alignment) == e

\* skip bytes until aligned
AlignUp(e, alignment) ==
    IF alignment # 0 /\ e % alignment # 0
    THEN e + (alignment - (e % alignment))
    ELSE e

\* a variant that proposes offset 0 last
BlockEndsZeroLast(order, alignment) ==
    [i \in 1..Len(order) |-> AlignUp(order[i].end, alignment)] \o <<0>>

\* block_ends: 0, then every block's aligned end in iteration order
BlockEnds(order, alignment) ==
    <<0>> \o [i \in 1..Len(order) |-> AlignUp(order[i].end, alignment)]

\* block_starts: the pool's size, then every block's start
BlockStarts(order) == <<PoolSize>> \o [i \in 1..Len(order) |-> order[i].start]

\* the inner loop ends without `continue 'outer`: no start at or after
\* `end` is closer than size
GapFits(end, starts, size) ==
    \A i \in 1..Len(starts) : starts[i] - end < 0 \/ starts[i] - end >= size

RECURSIVE FirstFit(_, _, _)
\* the outer loop: the first proposed end that fits, or -1 for None
FirstFit(ends, starts, size) ==
    IF ends = <<>> THEN -1
    ELSE IF GapFits(Head(ends), starts, size) THEN Head(ends)
         ELSE FirstFit(Tail(ends), starts, size)

\* BlockAllocator::alloc(size, alignment) on the table `as`, its map being
\* iterated in `order`: what it returns and the table it leaves
alloc_in(as, order, size, alignment) ==
    LET at == FirstFit(BlockEnds(order, alignment), BlockStarts(order), size)
        id == get_first_free_id(as)
    IN IF at < 0
       THEN [some |-> FALSE, id |-> 0, offset |-> 0, allocs |-> as]
       ELSE [some |-> TRUE, id |-> id, offset |-> at,
             allocs |-> {r \in as : r.id # id} \cup
                            {[id |-> id, start |-> at, end |-> at + size]}]

\* a variant that forgets every block of the table
free_in_all(as, id) == {}

\* BlockAllocator::free(id) on the table `as`
free_in(as, id) == {r \in as : r.id # id}

\* BlockAllocator::alloc(size, alignment), the map being iterated in some
\* order
Alloc(size, alignment) ==
    \E order \in IterationOrders(allocs) :
        LET got == alloc_in(allocs, order, size, alignment)
        IN /\ allocs' = got.allocs
           /\ last_call' = [op |-> "alloc", size |-> size,
                            alignment |-> alignment, some |-> got.some,
                            id |-> got.id, offset |-> got.offset]

\* BlockAllocator::free(id)
Free(id) ==
    /\ allocs' = free_in(allocs, id)
    /\ last_call' = [op |-> "free", size |-> 0, alignment |-> 0,
                     some |-> FALSE, id |-> id, offset |-> 0]

InitAlloc ==
    /\ mode = "alloc"
    /\ chunks = [k \in StreamKeys |-> 0]
    /\ chunk_meshes = [k \in StreamKeys |-> NoMesh]
    /\ entries = [i \in Ids |-> NoEntry]
    /\ observers = <<>>
    /\ Idle

AllocStep ==
    /\ mode = "alloc"
    /\ Cardinality(allocs) < MaxBlocks
    /\ \E size \in AllocSizes, alignment \in Alignments :
          Alloc(size, alignment)
    /\ \A r \in allocs' : r.end <= MaxExtent
    /\ UNCHANGED <<dimVars, gameVars, serverVars, clientVars, poolVars,
                   meshVars, arrayVars, utilVars,
                   mode>>

FreeStep ==
    /\ mode = "alloc"
    /\ \E id \in LiveIds(allocs) : Free(id)
    /\ UNCHANGED <<dimVars, gameVars, serverVars, clientVars, poolVars,
                   meshVars, arrayVars, utilVars,
                   mode>>

NextAlloc == AllocStep \/ FreeStep

SpecAlloc == InitAlloc /\ [][NextAlloc]_vars

---------------------------------------------------------------------------
(* C2: Dimension::set.  A successful set of the value the voxel already    *)
(* holds leaves the chunk's state flag and data as they were; a successful *)
(* set of a different value stores it and leaves the flag Dirty, whatever  *)
(* the flag was before.                                                    *)
SetMarksDirtyOnChange ==
    [][(/\ pc = "apply"
        /\ Len(results') = Len(results) + 1
        /\ results'[Len(results')] = "Ok") =>
          LET e  == NextEvent
              id == EntryAt(NextEvent.pos)
          IN IF entries[id].data[e.pos] = e.new_value
             THEN /\ entries'[id].state = entries[id].state
                  /\ entries'[id].data = entries[id].data
             ELSE /\ entries'[id].state = CHUNK_STATE_DIRTY
                  /\ entries'[id].data =
                        [entries[id].data EXCEPT ![e.pos] = e.new_value]]_vars

\* two sets of air at the same voxel were applied in one tick to a chunk
\* whose worker was spawned (flag Writing) and has not started: the first
\* made the flag Dirty, the second left everything alone
SetMarksDirtyOnChangeWitness ==
    /\ IsClient /\ pc = "apply"
    /\ results = <<"Ok", "Ok">>
    /\ drained = <<SetOne(<<6, 0, 7>>, 0), SetOne(<<6, 0, 7>>, 0)>>
    /\ \E j \in Jobs :
          /\ workers[j].wpc = "spawned"
          /\ workers[j].entry = chunks[<<0, 0, 0>>]
          /\ entries[workers[j].entry].state = CHUNK_STATE_DIRTY
          /\ entries[workers[j].entry].data[<<6, 0, 7>>] = 0

\* a meshing thread that has been spawned and has not ended
Active(j) == workers[j].wpc \in {"spawned", "reading", "finishing"}

(* C3: at most one meshing worker is active per chunk at any time: no two  *)
(* live worker threads hold the same ChunkEntry.                           *)
OneWorkerPerChunk ==
    \A i, j \in Jobs :
        (i # j /\ Active(i) /\ Active(j)) => workers[i].entry # workers[j].entry

(* C4: the orchestrator never blocks waiting on a meshing worker: it is    *)
(* never inside a lock acquisition that a worker's guard keeps from        *)
(* returning.                                                              *)
OrchestratorNeverBlocks == ~blocked

(* C5: after the harvesting step of an update, every mesh in the mesh      *)
(* cache was made from the chunk entry now resident at its position; none  *)
(* comes from an entry dropped since, also when the position was unloaded  *)
(* and loaded again.                                                       *)
MeshCacheFresh ==
    (pc = "loop" /\ update_result \in {"continue", "stop"}) =>
        \A k \in DOMAIN chunk_meshes :
            chunk_meshes[k] # NoMesh => chunk_meshes[k].origin = chunks[k]

\* the players whose connection thread still runs: the connected clients
Connected == {c \in Conns :
                 /\ \E i \in 1..Len(players) : players[i] = c
                 /\ sockets[c].state = "open"}

VoxEvPacket(e) == [type |-> "VoxEv", ev |-> e]

(* C6: a block break a client sent is taken by the next tick (the tick     *)
(* drains every player's inbound channel and applies all it drained        *)
(* before it ends); when the tick applies a break at a loaded position,    *)
(* the Dimension holds air there and a VoxEv of the break is queued to     *)
(* every connected client, the sender included.                            *)
BreakAppliedAndBroadcast ==
    [][/\ (pc = "tick" /\ pc' = "apply") =>
            \A i \in 1..Len(players) :
                LET sent == VoxEvs(sockets[players[i]].recv_from)
                IN /\ sockets'[players[i]].recv_from = <<>>
                   /\ \A n \in 1..Len(sent) :
                         \E m \in 1..Len(drained') : drained'[m] = sent[n]
       /\ (pc = "apply" /\ pc' # "apply") => Len(results) = Len(drained)
       /\ (/\ pc = "apply" /\ Len(results') = Len(results) + 1
           /\ drained[Len(results) + 1].new_value = 0
           /\ Lookup(drained[Len(results) + 1].pos) = "Ok") =>
            LET e == drained[Len(results) + 1]
            IN /\ results'[Len(results')] = "Ok"
               /\ entries'[chunks'[blockpos_to_chunk(e.pos)]].data[e.pos] = 0
               /\ \A c \in Connected :
                     sockets'[c].send_to =
                         Append(sockets[c].send_to, VoxEvPacket(e))]_vars

\* the break of the block at (6, 0, 7) has just been applied: the voxel is
\* air and the VoxEv is the latest packet queued to both connected clients
BreakAppliedAndBroadcastWitness ==
    /\ IsServer /\ pc = "apply"
    /\ results # <<>>
    /\ results[Len(results)] = "Ok"
    /\ drained[Len(results)] = SetOne(<<6, 0, 7>>, 0)
    /\ entries[chunks[<<0, 0, 0>>]].data[<<6, 0, 7>>] = 0
    /\ Connected = {1, 2}
    /\ \A c \in Connected :
          /\ sockets[c].send_to # <<>>
          /\ sockets[c].send_to[Len(sockets[c].send_to)]
                = VoxEvPacket(SetOne(<<6, 0, 7>>, 0))

RECURSIVE Successes(_)
\* the events among the first n drained whose application succeeded
Successes(n) ==
    IF n = 0 THEN <<>>
    ELSE IF results[n] = "Ok" THEN Append(Successes(n - 1), drained[n])
         ELSE Successes(n - 1)

(* C7: the events of a tick are applied one at a time in the order they    *)
(* were drained: each step of the loop applies the next drained event and  *)
(* nothing else, a successful one is appended to the history and to the    *)
(* queue of every connected client, a failed one changes nothing; so the   *)
(* history ends with the tick's successful events in drain order.          *)
AppliedAndBroadcastInOrder ==
    /\ [][(pc = "apply" /\ Len(results') = Len(results) + 1) =>
            LET e == drained[Len(results) + 1]
            IN IF results'[Len(results')] = "Ok"
               THEN /\ entries'[chunks[blockpos_to_chunk(e.pos)]].data[e.pos]
                          = e.new_value
                    /\ event_history' = Append(event_history, e)
                    /\ \A c \in Connected :
                          sockets'[c].send_to =
                              Append(sockets[c].send_to, VoxEvPacket(e))
               ELSE /\ entries' = entries
                    /\ event_history' = event_history
                    /\ sockets' = sockets]_vars
    /\ [](pc = "apply" =>
            /\ Len(results) <= Len(drained)
            /\ LET ok == Successes(Len(results))
               IN /\ Len(ok) <= Len(event_history)
                  /\ SubSeq(event_history,
                            Len(event_history) - Len(ok) + 1,
                            Len(event_history)) = ok)

\* two different events of one tick, both applied: the history holds them
\* in drain order and the voxel holds the value of the second
AppliedAndBroadcastInOrderWitness ==
    /\ IsServer /\ pc = "apply"
    /\ drained = <<SetOne(<<6, 0, 7>>, 0), SetOne(<<6, 0, 7>>, 1)>>
    /\ results = <<"Ok", "Ok">>
    /\ event_history = drained
    /\ entries[chunks[<<0, 0, 0>>]].data[<<6, 0, 7>>] = 1
    /\ Connected # {}

(* C8: when applying a voxel event fails, a not-yet-loaded failure is      *)
(* ignored and the tick continues, and any other failure is fatal to the   *)
(* tick loop: once an event of this tick has failed otherwise, the loop    *)
(* is no longer running.                                                   *)
ApplyFailureFatal ==
    /\ \A i \in 1..Len(results) :
          results[i] \notin {"Ok", "NotLoaded"} => ~running
    /\ (\E i \in 1..Len(results) : results[i] = "NotLoaded") => running

(* C9: the outer loop stops after a client update that returned            *)
(* keep_running = false, and also after one that returned an error: back   *)
(* at the loop condition, running is false.                                *)
LoopStopsAfterUpdate ==
    (pc = "loop" /\ update_result \in {"stop", "err"}) => ~running

(* C10: allocator reuse after free.  With [n, 2n) live (the second of two *)
(* adjacent blocks allocated with alignment 1) and nothing live below n    *)
(* (the first was freed), alloc(n, 1) returns offset 0 and an id that was  *)
(* not live, in whatever order the allocator iterates its live blocks.     *)
ReuseAfterFree ==
    [][\A n \in 1..MaxAllocSize :
          (/\ \E r \in allocs : r.start = n /\ r.end = 2 * n
           /\ \A r \in allocs : r.start >= n
           /\ last_call'.op = "alloc"
           /\ last_call'.size = n /\ last_call'.alignment = 1) =>
             /\ last_call'.some
             /\ last_call'.offset = 0
             /\ last_call'.id \notin LiveIds(allocs)
             /\ allocs' = allocs \cup
                   {[id |-> last_call'.id, start |-> 0, end |-> n]}]_vars

\* [0, 2) and [2, 4) were allocated as ids 1 and 2, id 1 was freed, and
\* alloc(2, 1) has returned (1, 0)
ReuseAfterFreeWitness ==
    /\ mode = "alloc"
    /\ last_call = [op |-> "alloc", size |-> 2, alignment |-> 1,
                    some |-> TRUE, id |-> 1, offset |-> 0]
    /\ allocs = {[id |-> 1, start |-> 0, end |-> 2],
                 [id |-> 2, start |-> 2, end |-> 4]}

---------------------------------------------------------------------------
\* the live ranges of a table that share a byte with [from, to)
Overlapping(as, from, to) == {r \in as : r.start < to /\ from < r.end}

\* the candidate offsets of a request: 0 and every live block's aligned end
Candidates(as, alignment) == {0} \cup {AlignUp(r.end, alignment) : r \in as}

\* the table has a free gap for the request: from some candidate offset
\* there are `size` bytes before the next block's start and the arena's end
HasFreeGap(as, size, alignment) ==
    \E e \in Candidates(as, alignment) :
        /\ e + size <= PoolSize
        /\ \A r \in as : r.start >= e => r.start >= e + size

(* C11: allocator exhaustion.  An alloc for which the table has no free    *)
(* gap returns None and leaves the table as it was; an alloc that returns  *)
(* a range returns one that overlaps no live allocation and ends within    *)
(* the arena.                                                              *)
AllocExhaustion ==
    [][(mode = "alloc" /\ last_call'.op = "alloc") =>
          /\ ~HasFreeGap(allocs, last_call'.size, last_call'.alignment) =>
                (~last_call'.some /\ allocs' = allocs)
          /\ last_call'.some =>
                /\ Overlapping(allocs, last_call'.offset,
                               last_call'.offset + last_call'.size) = {}
                /\ last_call'.offset + last_call'.size <= PoolSize]_vars

(* C12: first fit on an empty arena.  alloc(n, a) on an allocator without  *)
(* live blocks, 0 < n <= PoolSize, returns id 1 and offset 0 and records   *)
(* exactly the range [0, n).                                               *)
FirstFitEmptyArena ==
    [][(mode = "alloc" /\ allocs = {} /\ last_call'.op = "alloc") =>
          /\ last_call'.some
          /\ last_call'.id = 1
          /\ last_call'.offset = 0
          /\ allocs' = {[id |-> 1, start |-> 0, end |-> last_call'.size]}]_vars

\* the whole arena was asked for with alignment 2 and is the one live block
FirstFitEmptyArenaWitness ==
    /\ mode = "alloc"
    /\ last_call = [op |-> "alloc", size |-> PoolSize, alignment |-> 2,
                    some |-> TRUE, id |-> 1, offset |-> 0]
    /\ allocs = {[id |-> 1, start |-> 0, end |-> PoolSize]}

---------------------------------------------------------------------------
(* AutoMemoryPool: PoolAllocator::alloc and the drop of an                 *)
(* AutoMemoryPoolBlock.  Every chunk of device memory has CHUNK_SIZE bytes *)
(* (PoolSize here) and its own BlockAllocator behind an RwLock.            *)
(* alloc_generic holds the pools mutex from its first line to its return,  *)
(* so the allocating threads run one after the other: alloc_thread is the  *)
(* one that holds the mutex.  drop takes only the chunk's RwLock.          *)

IsPool == mode = "pool"

PoolChunkIds == 1..MaxChunks

\* what alloc_generic is asked for: one byte or a whole chunk, unaligned or
\* aligned to 2
PoolSizes == {1, PoolSize}
PoolAlignments == {1, 2}

LiveChunks == {c \in PoolChunkIds : pool_chunks[c].live}

\* the AutoMemoryPoolBlock built from what BlockAllocator::alloc returned
BlockOf(c, got, size) ==
    [chunk |-> c, id |-> got.id, offset |-> got.offset, size |-> size]

\* a variant that always names chunk 1
first_unused_chunk_id_one(live) == 1

\* chunk_id = 1; while self.contains_chunk(chunk_id) { chunk_id += 1 }
first_unused_chunk_id(live) ==
    CHOOSE x \in PoolChunkIds \ live : \A y \in PoolChunkIds \ live : x <= y

\* alloc_generic is entered: pools.lock()
AllocGeneric ==
    /\ IsPool
    /\ alloc_thread.pc = "idle"
    /\ Cardinality(blocks) < MaxPoolBlocks
    /\ \E size \in PoolSizes, alignment \in PoolAlignments :
          alloc_thread' = [pc |-> "iterating", size |-> size,
                           alignment |-> alignment, tried |-> {}, chunk |-> 0]
    /\ UNCHANGED <<pool_chunks, blocks, drop_thread>>
    /\ UNCHANGED <<dimVars, gameVars, serverVars, clientVars, allocVars,
                   meshVars, arrayVars, utilVars,
                   mode>>

\* the next chunk of self.chunks.iter_mut(): block_allocator.write()
AllocLockChunk(c) ==
    /\ IsPool
    /\ alloc_thread.pc = "iterating"
    /\ c \in LiveChunks \ alloc_thread.tried
    /\ pool_chunks[c].lock = "free"
    /\ pool_chunks' = [pool_chunks EXCEPT ![c].lock = "alloc"]
    /\ alloc_thread' = [alloc_thread EXCEPT !.pc = "in_chunk", !.chunk = c]
    /\ UNCHANGED <<blocks, drop_thread>>
    /\ UNCHANGED <<dimVars, gameVars, serverVars, clientVars, allocVars,
                   meshVars, arrayVars, utilVars,
                   mode>>

\* alloc_inner.alloc(size, alignment) under the write guard: Some returns
\* the block, None goes on to the next chunk
AllocInChunk ==
    /\ IsPool
    /\ alloc_thread.pc = "in_chunk"
    /\ LET c == alloc_thread.chunk
       IN \E order \in IterationOrders(pool_chunks[c].allocs) :
            LET got == alloc_in(pool_chunks[c].allocs, order,
                                alloc_thread.size, alloc_thread.alignment)
            IN IF got.some
               THEN /\ pool_chunks' = [pool_chunks EXCEPT
                                          ![c].allocs = got.allocs,
                                          ![c].lock = "free"]
                    /\ blocks' = blocks \cup
                                    {BlockOf(c, got, alloc_thread.size)}
                    /\ alloc_thread' = NoRequest
               ELSE /\ pool_chunks' = [pool_chunks EXCEPT ![c].lock = "free"]
                    /\ blocks' = blocks
                    /\ alloc_thread' = [alloc_thread EXCEPT
                                           !.pc = "iterating",
                                           !.tried = @ \cup {c},
                                           !.chunk = 0]
    /\ UNCHANGED drop_thread
    /\ UNCHANGED <<dimVars, gameVars, serverVars, clientVars, allocVars,
                   meshVars, arrayVars, utilVars,
                   mode>>

\* no chunk had room: a new chunk is taken from the device (the unwrap
\* panics when the device has none left), it gets the first unused chunk id
\* and a new BlockAllocator, and the block is allocated in it
AllocNewChunk ==
    /\ IsPool
    /\ alloc_thread.pc = "iterating"
    /\ LiveChunks \subseteq alloc_thread.tried
    /\ IF LiveChunks = PoolChunkIds
       THEN /\ alloc_thread' = [alloc_thread EXCEPT !.pc = "panicked"]
            /\ UNCHANGED <<pool_chunks, blocks>>
       ELSE LET c   == first_unused_chunk_id(LiveChunks)
                got == alloc_in({}, <<>>, alloc_thread.size,
                                alloc_thread.alignment)
            IN /\ pool_chunks' = [pool_chunks EXCEPT ![c] =
                      [live |-> TRUE, allocs |-> got.allocs, lock |-> "free"]]
               /\ blocks' = blocks \cup {BlockOf(c, got, alloc_thread.size)}
               /\ alloc_thread' = NoRequest
    /\ UNCHANGED drop_thread
    /\ UNCHANGED <<dimVars, gameVars, serverVars, clientVars, allocVars,
                   meshVars, arrayVars, utilVars,
                   mode>>

\* a block is dropped on another thread: self.allocator.write()
DropLock(b) ==
    /\ IsPool
    /\ drop_thread.pc = "idle"
    /\ b \in blocks
    /\ pool_chunks[b.chunk].lock = "free"
    /\ pool_chunks' = [pool_chunks EXCEPT ![b.chunk].lock = "drop"]
    /\ blocks' = blocks \ {b}
    /\ drop_thread' = [pc |-> "locked", block |-> b]
    /\ UNCHANGED alloc_thread
    /\ UNCHANGED <<dimVars, gameVars, serverVars, clientVars, allocVars,
                   meshVars, arrayVars, utilVars,
                   mode>>

\* a.free(&self.block_id), and the guard is dropped; drop_thread keeps the
\* block it dropped last
DropFree ==
    /\ IsPool
    /\ drop_thread.pc = "locked"
    /\ LET b == drop_thread.block
       IN pool_chunks' = [pool_chunks EXCEPT
                             ![b.chunk].allocs = free_in(@, b.id),
                             ![b.chunk].lock = "free"]
    /\ drop_thread' = [drop_thread EXCEPT !.pc = "idle"]
    /\ UNCHANGED <<blocks, alloc_thread>>
    /\ UNCHANGED <<dimVars, gameVars, serverVars, clientVars, allocVars,
                   meshVars, arrayVars, utilVars,
                   mode>>

InitPool ==
    /\ mode = "pool"
    /\ chunks = [k \in StreamKeys |-> 0]
    /\ chunk_meshes = [k \in StreamKeys |-> NoMesh]
    /\ entries = [i \in Ids |-> NoEntry]
    /\ observers = <<>>
    /\ Idle

NextPool ==
    \/ AllocGeneric
    \/ \E c \in PoolChunkIds : AllocLockChunk(c)
    \/ AllocInChunk
    \/ AllocNewChunk
    \/ \E b \in blocks : DropLock(b)
    \/ DropFree

SpecPool == InitPool /\ [][NextPool]_vars

---------------------------------------------------------------------------
\* the blocks that exist: the ones held and the one whose drop is running
HeldBlocks ==
    blocks \cup (IF drop_thread.pc = "locked" THEN {drop_thread.block} ELSE {})

\* the entry of its chunk's table that a block stands for
EntryOf(b) == [id |-> b.id, start |-> b.offset, end |-> b.offset + b.size]

(* C13: the drop of an AutoMemoryPoolBlock removes exactly its block id    *)
(* from its chunk's BlockAllocator and nothing from any other chunk, while *)
(* another thread allocates; at every moment every chunk's table holds     *)
(* exactly the entries of the blocks that exist, each id once: no id or    *)
(* range is freed twice or lost.                                           *)
DropFreesOwnBlock ==
    /\ [][(IsPool /\ drop_thread.pc = "locked" /\ drop_thread'.pc = "idle") =>
            LET b == drop_thread.block
            IN /\ EntryOf(b) \in pool_chunks[b.chunk].allocs
               /\ pool_chunks'[b.chunk].allocs =
                     pool_chunks[b.chunk].allocs \ {EntryOf(b)}
               /\ \A c \in PoolChunkIds \ {b.chunk} :
                     pool_chunks'[c].allocs = pool_chunks[c].allocs]_vars
    /\ [](IsPool =>
            /\ \A c \in PoolChunkIds :
                  pool_chunks[c].allocs =
                      {EntryOf(b) : b \in {h \in HeldBlocks : h.chunk = c}}
            /\ \A a, b \in HeldBlocks :
                  (a.chunk = b.chunk /\ a.id = b.id) => a = b)

\* the block (chunk 1, id 1, offset 0, one byte) was dropped, and a later
\* alloc_generic has returned the same id and range of chunk 1 again, next
\* to a second block of that chunk
DropFreesOwnBlockWitness ==
    /\ IsPool
    /\ drop_thread = [pc |-> "idle",
                      block |-> [chunk |-> 1, id |-> 1, offset |-> 0,
                                 size |-> 1]]
    /\ [chunk |-> 1, id |-> 1, offset |-> 0, size |-> 1] \in blocks
    /\ Cardinality(pool_chunks[1].allocs) = 2
    /\ alloc_thread.pc = "idle"

---------------------------------------------------------------------------
(* VoxelArray: a flat buffer indexed by voxel positions.  Positions are    *)
(* triples of an unsigned integer type; an Option is a record [some,       *)
(* value].                                                                 *)

None == [some |-> FALSE, value |-> 0]
Some(v) == [some |-> TRUE, value |-> v]

\* a variant with the row stride of a cubic array of side size_y
xyz_to_i_stride_y(x, y, z, size_x, size_y, size_z) ==
    (z * (size_x * size_y)) + (y * size_y) + x

xyz_to_i(x, y, z, size_x, size_y, size_z) ==
    (z * (size_x * size_y)) + (y * size_x) + x

\* a variant of the bounds check that looks at y and z only
OutsideArrayYZ(a, coord) ==
    \/ coord[2] >= a.size_y
    \/ coord[3] >= a.size_z

\* the bounds check of get and set
OutsideArray(a, coord) ==
    \/ coord[1] >= a.size_x
    \/ coord[2] >= a.size_y
    \/ coord[3] >= a.size_z

\* the index of a position in the buffer, from 0
IndexOf(a, coord) ==
    xyz_to_i(coord[1], coord[2], coord[3], a.size_x, a.size_y, a.size_z)

\* VoxelArray::get
ArrayGet(a, coord) ==
    IF OutsideArray(a, coord) THEN None
    ELSE IF IndexOf(a, coord) < Len(a.data)
         THEN Some(a.data[IndexOf(a, coord) + 1])
         ELSE None

\* a variant of set that writes the first cell of the buffer
ArraySetFirstCell(a, coord, value) ==
    IF OutsideArray(a, coord) THEN a
    ELSE [a EXCEPT !.data[1] = value]

\* VoxelArray::set; get_mut(..).unwrap() panics on an index past the
\* buffer, which leaves the array as it was
ArraySet(a, coord, value) ==
    IF OutsideArray(a, coord) THEN a
    ELSE IF IndexOf(a, coord) < Len(a.data)
         THEN [a EXCEPT !.data[IndexOf(a, coord) + 1] = value]
         ELSE a

\* VoxelArray::load_new
load_new(szx, szy, szz, dat) ==
    [size_x |-> szx, size_y |-> szy, size_z |-> szz, data |-> dat]

---------------------------------------------------------------------------
(* MeshSimplifier::process_slice.  A slice is the Vec of InputQuads, row   *)
(* after row; the cell (x, y) has the index y * slice_width + x, from 0.   *)
(* `done` is the set of indices whose done flag is set in input_quads:     *)
(* the loop's `q` is a clone, so the flags it sets on q are not kept.      *)

AIR == 0

InputQuad(x, y, exists, block_id) ==
    [x |-> x, y |-> y, exists |-> exists, block_id |-> block_id]

\* OutputQuad { x: q.x, y: q.y, w: 1, h: 1, width_done: false, block_id }
NewQuad(q) ==
    [x |-> q.x, y |-> q.y, w |-> 1, h |-> 1, width_done |-> FALSE,
     block_id |-> q.block_id]

\* the indices of the row y under the quad
RowUnder(current, y, slice_width) ==
    {y * slice_width + x : x \in current.x..(current.x + current.w - 1)}

RECURSIVE GrowLoop(_, _, _, _, _)
\* the downward loop: rows are taken while every cell under the quad
\* exists, is not done and has the quad's block id
GrowLoop(input_quads, slice_width, current, done, y) ==
    LET row == RowUnder(current, y, slice_width)
        ok  == \A i \in row :
                  /\ input_quads[i + 1].exists
                  /\ i \notin done
                  /\ input_quads[i + 1].block_id = current.block_id
    IN IF ~ok THEN [quad |-> current, done |-> done]
       ELSE IF y + 1 >= slice_width
            THEN [quad |-> [current EXCEPT !.h = @ + 1],
                  done |-> done \cup row]
            ELSE GrowLoop(input_quads, slice_width,
                          [current EXCEPT !.h = @ + 1], done \cup row, y + 1)

\* if current.width_done { .. }: grow down from the row below the quad
GrowDown(input_quads, slice_width, slice_height, current, done) ==
    IF current.y + 1 < slice_height
    THEN GrowLoop(input_quads, slice_width, current, done, current.y + 1)
    ELSE [quad |-> current, done |-> done]

\* a variant that ends right expansion at every cell
GrowRightNever(current, q, qdone) == [current EXCEPT !.width_done = TRUE]

\* if !current.width_done { .. }: one step of right expansion
GrowRight(current, q, qdone) ==
    IF current.width_done THEN current
    ELSE IF q.x > current.x /\ q.exists /\ ~qdone
               /\ q.block_id = current.block_id
         THEN [current EXCEPT !.w = @ + 1]
         ELSE [current EXCEPT !.width_done = TRUE]

RECURSIVE SliceLoop(_, _, _, _, _, _, _)
\* the while loop from index i on; current_quad is <<>> for None
SliceLoop(input_quads, slice_width, slice_height, i, current_quad, done, output_quads) ==
    IF i >= slice_width * slice_height THEN output_quads
    ELSE
      LET q     == input_quads[i + 1]
          qdone == i \in done
      IN IF current_quad = <<>>
         THEN SliceLoop(input_quads, slice_width, slice_height, i + 1,
                        IF q.exists /\ ~qdone THEN <<NewQuad(q)>> ELSE <<>>,
                        done, output_quads)
         ELSE
           LET current == GrowRight(current_quad[1], q, qdone)
           IN IF current.width_done
              THEN LET g == GrowDown(input_quads, slice_width, slice_height,
                                     current, done)
                   IN SliceLoop(input_quads, slice_width, slice_height, i,
                                <<>>, g.done, Append(output_quads, g.quad))
              ELSE IF i + 1 >= slice_width * slice_height
                   THEN Append(output_quads, current)
                   ELSE SliceLoop(input_quads, slice_width, slice_height,
                                  i + 1, <<current>>, done, output_quads)

process_slice(input_quads, slice_width, slice_height) ==
    SliceLoop(input_quads, slice_width, slice_height, 0, <<>>, {}, <<>>)

---------------------------------------------------------------------------
(* MeshSimplifier::generate_quads.  The six sides and the arithmetic of    *)
(* VoxelAxis and VoxelPos are those of voxel::voxelmath.                   *)

\* voxel_sides_unroll!: the six sides
Facings == <<"PosiX", "NegaX", "PosiY", "NegaY", "PosiZ", "NegaZ">>

\* facing.into(): the unsigned axis, as the index of its coordinate
AxisOf(facing) ==
    CASE facing \in {"PosiX", "NegaX"} -> 1
      [] facing \in {"PosiY", "NegaY"} -> 2
      [] facing \in {"PosiZ", "NegaZ"} -> 3

\* facing.get_sign()
SignOf(facing) ==
    IF facing \in {"PosiX", "PosiY", "PosiZ"} THEN "POSI" ELSE "NEGA"

\* the axis of `up`: X => PosiY, Y => PosiZ, Z => PosiY
UpAxis(facing) ==
    CASE AxisOf(facing) = 1 -> 2
      [] AxisOf(facing) = 2 -> 3
      [] AxisOf(facing) = 3 -> 2

\* the axis of `across`: X => PosiZ, Y => PosiX, Z => PosiX
AcrossAxis(facing) ==
    CASE AxisOf(facing) = 1 -> 3
      [] AxisOf(facing) = 2 -> 1
      [] AxisOf(facing) = 3 -> 1

\* point.get_neighbor_unsigned(facing): Err when the neighbour would be at
\* a negative coordinate
get_neighbor_unsigned(point, facing) ==
    IF SignOf(facing) = "POSI"
    THEN [ok |-> TRUE, pos |-> [point EXCEPT ![AxisOf(facing)] = @ + 1]]
    ELSE IF point[AxisOf(facing)] = 0
         THEN [ok |-> FALSE, pos |-> point]
         ELSE [ok |-> TRUE, pos |-> [point EXCEPT ![AxisOf(facing)] = @ - 1]]

\* bounds_local.contains(adj), bounds_local being [0, chunk_size)
BoundsLocalContains(chunk, adj) ==
    /\ adj[1] < chunk.size_x
    /\ adj[2] < chunk.size_y
    /\ adj[3] < chunk.size_z

\* chunk_size.coord_for_axis(axis)
SizeOnAxis(chunk, axis) ==
    <<chunk.size_x, chunk.size_y, chunk.size_z>>[axis]

\* a variant that visits the layers 0 .. max_layer - 1 for both signs
LayerOfFromZero(facing, layer_l, max_layer) == layer_l

\* the layer visited in the iteration layer_l of `for layer_l in 0 .. max_layer`
LayerOf(facing, layer_l, max_layer) ==
    IF SignOf(facing) = "POSI" THEN layer_l ELSE max_layer - layer_l

\* the point of the cell (x, y) of the layer
PointOf(facing, layer, x, y) ==
    [a \in 1..3 |->
        IF a = AxisOf(facing) THEN layer
        ELSE IF a = UpAxis(facing) THEN y
        ELSE x]

\* the `exists` of the InputQuad at a point
FaceExists(chunk, facing, point) ==
    LET voxel_maybe    == ArrayGet(chunk, point)
        adjacent_point == get_neighbor_unsigned(point, facing)
    IN IF ~voxel_maybe.some THEN FALSE
       ELSE IF voxel_maybe.value = AIR THEN FALSE
       ELSE IF ~adjacent_point.ok THEN TRUE
       ELSE IF ~BoundsLocalContains(chunk, adjacent_point.pos) THEN TRUE
       ELSE LET n == ArrayGet(chunk, adjacent_point.pos)
            IN ~n.some \/ n.value = AIR

\* input_quads of one layer: for y in 0..max_y { for x in 0..max_x { push } }
SliceOf(chunk, facing, layer) ==
    LET max_y == SizeOnAxis(chunk, UpAxis(facing))
        max_x == SizeOnAxis(chunk, AcrossAxis(facing))
    IN [k \in 1..(max_x * max_y) |->
          LET x == (k - 1) % max_x
              y == (k - 1) \div max_x
              point == PointOf(facing, layer, x, y)
              voxel_maybe == ArrayGet(chunk, point)
          IN InputQuad(x, y, FaceExists(chunk, facing, point),
                       IF voxel_maybe.some THEN voxel_maybe.value ELSE AIR)]

\* what one iteration of the layer loop pushes to output, with the slice
\* it was made from
LayerOutput(chunk, facing, layer_l) ==
    LET max_layer == SizeOnAxis(chunk, AxisOf(facing))
        layer     == LayerOf(facing, layer_l, max_layer)
        slice     == SliceOf(chunk, facing, layer)
    IN [facing |-> facing, layer |-> layer, input_quads |-> slice,
        quads |-> process_slice(slice,
                                SizeOnAxis(chunk, AcrossAxis(facing)),
                                SizeOnAxis(chunk, UpAxis(facing)))]

RECURSIVE LayersFrom(_, _, _)
\* for layer_l in 0 .. max_layer
LayersFrom(chunk, facing, layer_l) ==
    IF layer_l >= SizeOnAxis(chunk, AxisOf(facing)) THEN <<>>
    ELSE <<LayerOutput(chunk, facing, layer_l)>>
            \o LayersFrom(chunk, facing, layer_l + 1)

RECURSIVE SidesFrom(_, _)
SidesFrom(chunk, f) ==
    IF f > Len(Facings) THEN <<>>
    ELSE LayersFrom(chunk, Facings[f], 0) \o SidesFrom(chunk, f + 1)

generate_quads(chunk) == SidesFrom(chunk, 1)

---------------------------------------------------------------------------
(* SpecMesh: process_slice on every square slice of side 1..MaxSlice, and  *)
(* generate_quads on every chunk of MeshSide^3 voxels.                     *)

IsMesh == mode = "mesh"

\* the slices of a side: every pattern of exists flags and block ids
Slices(side) ==
    {[k \in 1..(side * side) |->
         InputQuad((k - 1) % side, (k - 1) \div side,
                   pat[k].exists, pat[k].block_id)] :
       pat \in [1..(side * side) ->
                  [exists : BOOLEAN, block_id : 0..MaxBlockID]]}

\* the chunks: every filling of MeshSide^3 voxels
MeshChunks ==
    [1..(MeshSide * MeshSide * MeshSide) -> 0..MaxBlockID]

\* the VoxelArray of a chunk given to generate_quads
ChunkOf(input) == load_new(input.side, input.side, input.side, input.cells)

ProcessSlice ==
    /\ IsMesh
    /\ mesh_in.kind = "slice" /\ ~mesh_out.called
    /\ mesh_out' = [called |-> TRUE,
                    result |-> process_slice(mesh_in.cells, mesh_in.side,
                                             mesh_in.side)]
    /\ UNCHANGED mesh_in
    /\ UNCHANGED <<dimVars, gameVars, serverVars, clientVars, allocVars,
                   poolVars, arrayVars, utilVars,
                   mode>>

GenerateQuads ==
    /\ IsMesh
    /\ mesh_in.kind = "chunk" /\ ~mesh_out.called
    /\ mesh_out' = [called |-> TRUE,
                    result |-> generate_quads(ChunkOf(mesh_in))]
    /\ UNCHANGED mesh_in
    /\ UNCHANGED <<dimVars, gameVars, serverVars, clientVars, allocVars,
                   poolVars, arrayVars, utilVars,
                   mode>>

InitMesh ==
    /\ mode = "mesh"
    /\ chunks = [k \in StreamKeys |-> 0]
    /\ chunk_meshes = [k \in StreamKeys |-> NoMesh]
    /\ entries = [i \in Ids |-> NoEntry]
    /\ observers = <<>>
    /\ pc = "idle" /\ running = TRUE /\ ticks_due = 0 /\ current_server_tick = 0
    /\ bus_queue = <<>> /\ drained = <<>> /\ results = <<>>
    /\ event_history = <<>>
    /\ players = <<>> /\ new_players = <<>>
    /\ sockets = [c \in Conns |-> NoConn]
    /\ player_pos = PlayerStart /\ pending_meshes = <<>>
    /\ workers = [j \in Jobs |-> NoJob]
    /\ update_result = "none" /\ blocked = FALSE
    /\ allocs = {}
    /\ last_call = [op |-> "none", size |-> 0, alignment |-> 0,
                    some |-> FALSE, id |-> 0, offset |-> 0]
    /\ PoolIdle /\ ArrayIdle /\ UtilIdle
    /\ mesh_out = NotMeshed
    /\ \/ \E side \in 1..MaxSlice : \E cells \in Slices(side) :
             mesh_in = [kind |-> "slice", side |-> side, cells |-> cells]
       \/ \E cells \in MeshChunks :
             mesh_in = [kind |-> "chunk", side |-> MeshSide, cells |-> cells]

NextMesh == ProcessSlice \/ GenerateQuads

SpecMesh == InitMesh /\ [][NextMesh]_vars

---------------------------------------------------------------------------
\* the quad covers the cell
Covers(quad, cell) ==
    /\ quad.x <= cell.x /\ cell.x < quad.x + quad.w
    /\ quad.y <= cell.y /\ cell.y < quad.y + quad.h

\* the quads of a list that cover the cell, by their index
CoveringQuads(quads, cell) ==
    {i \in 1..Len(quads) : Covers(quads[i], cell)}

\* the quads cover every cell that exists exactly once and no other cell,
\* each quad only cells of its own block id
ExactCover(input_quads, quads) ==
    \A k \in 1..Len(input_quads) :
        LET cell == input_quads[k]
        IN /\ Cardinality(CoveringQuads(quads, cell)) =
                 (IF cell.exists THEN 1 ELSE 0)
           /\ \A i \in CoveringQuads(quads, cell) :
                 quads[i].block_id = cell.block_id

(* C14: greedy meshing exact cover.  The quads that process_slice returns  *)
(* for a slice do not overlap, cover every cell whose exists flag is true  *)
(* exactly once and no cell whose flag is false, and each quad covers only *)
(* cells of its own block id.                                              *)
GreedyExactCover ==
    (IsMesh /\ mesh_in.kind = "slice" /\ mesh_out.called) =>
        ExactCover(mesh_in.cells, mesh_out.result)

(* C15: greedy meshing of a uniform slice.  A square slice in which every  *)
(* cell exists and has the same block id yields exactly one quad, at       *)
(* (0, 0), as wide and as high as the slice.                               *)
UniformSliceOneQuad ==
    (/\ IsMesh /\ mesh_in.kind = "slice" /\ mesh_out.called
     /\ \A k \in 1..Len(mesh_in.cells) :
           /\ mesh_in.cells[k].exists
           /\ mesh_in.cells[k].block_id = mesh_in.cells[1].block_id) =>
        /\ Len(mesh_out.result) = 1
        /\ mesh_out.result[1].x = 0 /\ mesh_out.result[1].y = 0
        /\ mesh_out.result[1].w = mesh_in.side
        /\ mesh_out.result[1].h = mesh_in.side
        /\ mesh_out.result[1].block_id = mesh_in.cells[1].block_id

---------------------------------------------------------------------------
\* the voxel of the chunk at a point inside it
VoxelAt(chunk, point) == chunk.data[IndexOf(chunk, point) + 1]

\* the point lies in the chunk
InsideChunk(chunk, point) ==
    /\ 0 <= point[1] /\ point[1] < chunk.size_x
    /\ 0 <= point[2] /\ point[2] < chunk.size_y
    /\ 0 <= point[3] /\ point[3] < chunk.size_z

\* the neighbour one step along the facing, in signed coordinates
NeighbourAlong(point, facing) ==
    [point EXCEPT ![AxisOf(facing)] =
        IF SignOf(facing) = "POSI" THEN @ + 1 ELSE @ - 1]

\* the voxel at the point shows a face to the facing: it is not air and its
\* neighbour is air or outside the chunk
ShowsFace(chunk, facing, point) ==
    /\ VoxelAt(chunk, point) # AIR
    /\ \/ ~InsideChunk(chunk, NeighbourAlong(point, facing))
       \/ VoxelAt(chunk, NeighbourAlong(point, facing)) = AIR

\* the entries of generate_quads' output for a facing and a layer
EntriesFor(output, facing, layer) ==
    {i \in 1..Len(output) :
        output[i].facing = facing /\ output[i].layer = layer}

\* every facing and every layer 0 .. side - 1 has an entry whose slice has
\* exists set exactly at the voxels that show a face
SlicesOfAllLayers(chunk, output) ==
    \A f \in 1..Len(Facings) :
      \A layer \in 0..(SizeOnAxis(chunk, AxisOf(Facings[f])) - 1) :
        \E i \in EntriesFor(output, Facings[f], layer) :
          \A k \in 1..Len(output[i].input_quads) :
            LET cell == output[i].input_quads[k]
            IN cell.exists <=>
                 ShowsFace(chunk, Facings[f],
                           PointOf(Facings[f], layer, cell.x, cell.y))

\* every voxel that is not air and has a neighbour outside the chunk has a
\* quad for that side
BoundaryFacesEmitted(chunk, output) ==
    \A f \in 1..Len(Facings) :
      \A point \in (0..(chunk.size_x - 1)) \X (0..(chunk.size_y - 1))
                      \X (0..(chunk.size_z - 1)) :
        (/\ VoxelAt(chunk, point) # AIR
         /\ ~InsideChunk(chunk, NeighbourAlong(point, Facings[f]))) =>
           \E i \in EntriesFor(output, Facings[f], point[AxisOf(Facings[f])]) :
             \E q \in 1..Len(output[i].quads) :
               Covers(output[i].quads[q],
                      [x |-> point[AcrossAxis(Facings[f])],
                       y |-> point[UpAxis(Facings[f])]])

(* C16: face generation covers all six directions and all layers.  For     *)
(* each of the six facings and every layer 0 .. chunk size - 1 along its   *)
(* axis, generate_quads builds a slice in which a cell exists exactly when *)
(* the voxel at that layer is not air and its neighbour along the facing   *)
(* is air or outside the chunk; so every voxel on a chunk boundary that is *)
(* not air gets its outward face, at coordinate 0 for the negative         *)
(* directions as at the far side for the positive ones.                    *)
FacesOfAllDirections ==
    (IsMesh /\ mesh_in.kind = "chunk" /\ mesh_out.called) =>
        /\ SlicesOfAllLayers(ChunkOf(mesh_in), mesh_out.result)
        /\ BoundaryFacesEmitted(ChunkOf(mesh_in), mesh_out.result)

---------------------------------------------------------------------------
(* SpecArray: one voxel event and a VoxelArray.  The array is loaded as    *)
(* test_array_raccess loads it, every cell holding its own index; the      *)
(* event's position has every coordinate in 0..MaxSide, one past the       *)
(* longest axis.                                                           *)

IsArray == mode = "array"

\* for i in 0 .. OURSIZE { test_chunk.push(i) }
IdentityData(n) == [i \in 1..n |-> i - 1]

ArrayShapes == (1..MaxSide) \X (1..MaxSide) \X (1..MaxSide)

ArrayPositions == (0..MaxSide) \X (0..MaxSide) \X (0..MaxSide)

\* the values written: block ids, and one that no cell of the array holds
NewValues(n) == (0..MaxBlockID) \cup {n}

\* OneVoxelChange::apply_blind: stor.set(self.pos, self.new_value); Ok(())
apply_blind_array(e, stor) ==
    [storage |-> ArraySet(stor, e.pos, e.new_value), result |-> "Ok"]

\* evt.apply_blind(&mut storage)
ApplyEvent ==
    /\ IsArray
    /\ applied.count < MaxApplications
    /\ array' = apply_blind_array(event, array).storage
    /\ applied' = [count |-> applied.count + 1,
                   result |-> apply_blind_array(event, array).result,
                   read |-> FALSE, got |-> None]
    /\ UNCHANGED event
    /\ UNCHANGED <<dimVars, gameVars, serverVars, clientVars, allocVars,
                   poolVars, meshVars, utilVars, mode>>

\* storage.get(pos)
GetVoxel ==
    /\ IsArray
    /\ ~applied.read
    /\ applied' = [applied EXCEPT !.read = TRUE,
                                  !.got = ArrayGet(array, event.pos)]
    /\ UNCHANGED <<array, event>>
    /\ UNCHANGED <<dimVars, gameVars, serverVars, clientVars, allocVars,
                   poolVars, meshVars, utilVars, mode>>

InitArray ==
    /\ mode = "array"
    /\ chunks = [k \in ClientKeys |-> 0]
    /\ chunk_meshes = [k \in ClientKeys |-> NoMesh]
    /\ entries = [i \in Ids |-> NoEntry]
    /\ observers = <<>>
    /\ pc = "idle" /\ running = TRUE /\ ticks_due = 0 /\ current_server_tick = 0
    /\ bus_queue = <<>> /\ drained = <<>> /\ results = <<>>
    /\ event_history = <<>>
    /\ players = <<>> /\ new_players = <<>>
    /\ sockets = [c \in Conns |-> NoConn]
    /\ player_pos = PlayerStart /\ pending_meshes = <<>>
    /\ workers = [j \in Jobs |-> NoJob]
    /\ update_result = "none" /\ blocked = FALSE
    /\ allocs = {}
    /\ last_call = [op |-> "none", size |-> 0, alignment |-> 0,
                    some |-> FALSE, id |-> 0, offset |-> 0]
    /\ PoolIdle /\ MeshIdle /\ UtilIdle
    /\ applied = NotApplied
    /\ \E shape \in ArrayShapes :
         LET n == shape[1] * shape[2] * shape[3]
         IN /\ array = load_new(shape[1], shape[2], shape[3], IdentityData(n))
            /\ \E p \in ArrayPositions, v \in NewValues(n) :
                  event = SetOne(p, v)

NextArray == ApplyEvent \/ GetVoxel

SpecArray == InitArray /\ [][NextArray]_vars

\* SpecStorage: the two storages an event is applied to, the VoxelArray of
\* SpecArray and the Dimension of a singleplayer game
InitStorage == InitArray \/ InitClient

NextStorage == NextArray \/ NextClient

SpecStorage == InitStorage /\ [][NextStorage]_vars

---------------------------------------------------------------------------
\* the position lies within the declared size of the array
InArray(a, p) == p[1] < a.size_x /\ p[2] < a.size_y /\ p[3] < a.size_z

\* the positions within the declared size
PositionsOf(a) ==
    (0..(a.size_x - 1)) \X (0..(a.size_y - 1)) \X (0..(a.size_z - 1))

(* C17: voxel array round trip.  After set(p, v) at a position p within    *)
(* the array's size, get(p) returns v.                                     *)
ArrayRoundTrip ==
    (/\ IsArray /\ applied.count >= 1 /\ applied.read
     /\ InArray(array, event.pos)) =>
        applied.got = Some(event.new_value)

\* an array of 2 x 1 x 2 cells, the value 4 set at (1, 0, 1) and read back
ArrayRoundTripWitness ==
    /\ IsArray
    /\ array.size_x = 2 /\ array.size_y = 1 /\ array.size_z = 2
    /\ event = SetOne(<<1, 0, 1>>, 4)
    /\ applied.count = 1 /\ applied.read
    /\ applied.got = Some(4)

(* C18: voxel array out-of-range access.  At a position with a coordinate  *)
(* at or past the declared size on that axis, get returns None and set     *)
(* leaves every cell of the array as it was.                               *)
ArrayOutOfRange ==
    /\ []((IsArray /\ ~InArray(array, event.pos) /\ applied.read) =>
             applied.got = None)
    /\ [][(/\ IsArray /\ ~InArray(array, event.pos)
           /\ applied'.count = applied.count + 1) => array' = array]_vars

\* on an array of 1 x 2 x 2 cells the value 4 was set at (1, 0, 0), whose
\* index 1 is the cell (0, 1, 0), and get has returned None there
ArrayOutOfRangeWitness ==
    /\ IsArray
    /\ array = load_new(1, 2, 2, IdentityData(4))
    /\ event = SetOne(<<1, 0, 0>>, 4)
    /\ applied.count = 1 /\ applied.read
    /\ applied.got = None

(* C19: applying a set-one-voxel event at a position p within the array    *)
(* changes only the value at p: every other position within the array      *)
(* keeps the value it had.                                                 *)
ArraySetFrame ==
    [][(/\ IsArray /\ InArray(array, event.pos)
        /\ applied'.count = applied.count + 1) =>
          \A q \in PositionsOf(array) \ {event.pos} :
              ArrayGet(array', q) = ArrayGet(array, q)]_vars

\* on an array of 1 x 2 x 2 cells the value 4 was set at (0, 1, 0): the
\* cell of index 1 holds it and the other three hold their index
ArraySetFrameWitness ==
    /\ IsArray
    /\ array = load_new(1, 2, 2, <<0, 4, 2, 3>>)
    /\ event = SetOne(<<0, 1, 0>>, 4)
    /\ applied.count = 1


(* C20: event idempotence.  Applying the same SetOne event a second time   *)
(* in sequence leaves the voxel contents as the first application left     *)
(* them, in a VoxelArray and in a Dimension, and leaves the mesh-status    *)
(* flag of every chunk of the Dimension as it was.                         *)
EventIdempotence ==
    /\ [][(/\ IsArray /\ applied.count >= 1
           /\ applied'.count = applied.count + 1) => array' = array]_vars
    /\ [][(/\ pc = "apply" /\ Len(results) >= 1
           /\ Len(results') = Len(results) + 1
           /\ drained[Len(results) + 1] = drained[Len(results)]) =>
             \A id \in Ids :
                 /\ entries'[id].data = entries[id].data
                 /\ entries'[id].state = entries[id].state]_vars

\* the Dimension after the same SetOne was applied twice in one tick while
\* a meshing worker stored Clean in between: the voxel holds the new value
\* and the flag is still Clean
EventIdempotenceWitness ==
    /\ IsClient
    /\ drained = <<SetOne(<<6, 0, 7>>, 0), SetOne(<<6, 0, 7>>, 0)>>
    /\ results = <<"Ok", "Ok">>
    /\ entries[EntryAt(<<6, 0, 7>>)].data[<<6, 0, 7>>] = 0
    /\ entries[EntryAt(<<6, 0, 7>>)].state = CHUNK_STATE_CLEAN

---------------------------------------------------------------------------
(* SpecCoord: blockpos_to_chunk as a function of the block position and    *)
(* the chunk size.  The positions are the two of test_chunkpos with one    *)
(* coordinate at a time replaced by a coordinate near zero or near 2^24,   *)
(* where an i32 no longer fits the 24 bits of an f32.                      *)

IsCoord == mode = "coord"

TwoTo24 == 16777216

NearCoords == (-MaxNear)..MaxNear

FarCoords == {TwoTo24 + d : d \in (-1)..FarSpan}
                 \cup {-(TwoTo24 + d) : d \in (-1)..FarSpan}

\* vpos!(6, -1, 7) and vpos!(17, -25, 2)
TestPoints == {<<6, -1, 7>>, <<17, -25, 2>>}

ConvPoints ==
    {[b EXCEPT ![a] = c] :
        b \in TestPoints, a \in 1..3, c \in NearCoords \cup FarCoords}

\* vpos!(16, 16, 16) and vpos!(8, 24, 4)
ConvSizes == {<<16, 16, 16>>, <<8, 24, 4>>}

\* blockpos_to_chunk(point, chunk_size)
BlockposToChunk ==
    /\ IsCoord
    /\ ~conv.done
    /\ conv' = [conv EXCEPT
                  !.done = TRUE,
                  !.chunkpos = blockpos_to_chunk_sized(conv.point,
                                                       conv.chunk_size)]
    /\ UNCHANGED <<coreVars, access, ray, registry, timer, renderer>>

InitCoord ==
    /\ mode = "coord"
    /\ Quiet
    /\ AccessIdle /\ RayIdle /\ RegistryIdle /\ TimerIdle /\ RendererIdle
    /\ \E p \in ConvPoints, s \in ConvSizes :
          conv = [point |-> p, chunk_size |-> s, done |-> FALSE,
                  chunkpos |-> <<0, 0, 0>>]

NextCoord == BlockposToChunk

SpecCoord == InitCoord /\ [][NextCoord]_vars

(* C21: blockpos_to_chunk is floor division per axis.  For every block     *)
(* position p and chunk size s the result c has c*s <= p < (c+1)*s on      *)
(* each axis.                                                              *)
BlockposToChunkIsFloor ==
    (IsCoord /\ conv.done) =>
        \A a \in 1..3 :
            /\ conv.chunkpos[a] * conv.chunk_size[a] <= conv.point[a]
            /\ conv.point[a] < (conv.chunkpos[a] + 1) * conv.chunk_size[a]

\* the two calls of test_chunkpos and their results
TestChunkposPasses ==
    (IsCoord /\ conv.done) =>
        /\ (conv.point = <<6, -1, 7>> /\ conv.chunk_size = <<16, 16, 16>>) =>
              conv.chunkpos = <<0, -1, 0>>
        /\ (conv.point = <<17, -25, 2>> /\ conv.chunk_size = <<8, 24, 4>>) =>
              conv.chunkpos = <<2, -2, 0>>

\* below 2^24 in absolute value the result is the floor on every axis
BlockposToChunkIsFloorNear ==
    (/\ IsCoord /\ conv.done
     /\ \A a \in 1..3 : Abs(conv.point[a]) <= TwoTo24) =>
        \A a \in 1..3 :
            /\ conv.chunkpos[a] * conv.chunk_size[a] <= conv.point[a]
            /\ conv.point[a] < (conv.chunkpos[a] + 1) * conv.chunk_size[a]

---------------------------------------------------------------------------
(* SpecDimension: a Dimension on its own: streaming passes of both kinds,  *)
(* and get and set called at any followed position.                        *)

IsDimension == mode = "dimension"

\* the chunks of SpecClient, and one that lies three chunks below zero on
\* the x axis
DimKeys == ClientKeys \cup {<<-3, 0, 0>>}

\* the observers stand where the player of SpecClient does, or below zero
\* on every axis
DimObservers == ClientPositions \cup {<<-8, -8, -8>>}

DimStreamClientside ==
    /\ IsDimension
    /\ \E p \in DimObservers : load_unload_chunks_clientside(p, ClientVoxels)
    /\ UNCHANGED <<gameVars, serverVars, clientVars, libVars, mode>>

DimStreamServerside ==
    /\ IsDimension
    /\ \E ps \in SeqsUpTo(DimObservers, MaxPlayers) :
            load_unload_chunks_serverside(ps, ClientVoxels)
    /\ UNCHANGED <<gameVars, serverVars, clientVars, libVars, mode>>

\* dimension.get(coord)
DimGet ==
    /\ IsDimension
    /\ \E p \in ClientVoxels :
          access' = [op |-> "get", pos |-> p, value |-> 0,
                     result |-> DimensionGet(p).result,
                     got |-> DimensionGet(p).value]
    /\ UNCHANGED <<coreVars, conv, ray, registry, timer, renderer>>

\* dimension.set(coord, value)
DimSet ==
    /\ IsDimension
    /\ \E p \in ClientVoxels, v \in 0..MaxBlockID :
          /\ entries' = DimensionSet(p, v)
          /\ access' = [op |-> "set", pos |-> p, value |-> v,
                        result |-> Lookup(p), got |-> 0]
    /\ UNCHANGED <<chunks, observers, gameVars, serverVars, clientVars,
                   allocVars, poolVars, meshVars, arrayVars, mode, conv, ray,
                   registry, timer, renderer>>

InitDimension ==
    /\ mode = "dimension"
    /\ chunks = [k \in DimKeys |-> 0]
    /\ chunk_meshes = [k \in DimKeys |-> NoMesh]
    /\ entries = [i \in Ids |-> NoEntry]
    /\ observers = <<>>
    /\ Idle

NextDimension ==
    DimStreamClientside \/ DimStreamServerside \/ DimGet \/ DimSet

SpecDimension == InitDimension /\ [][NextDimension]_vars

BoundsOfResidentEntries ==
    \A k \in DOMAIN chunks :
        chunks[k] # 0 =>
            /\ entries[chunks[k]].bounds.lower = chunkpos_to_block(k)
            /\ \A a \in 1..3 :
                  entries[chunks[k]].bounds.upper[a]
                      - entries[chunks[k]].bounds.lower[a] = ChunkSize

(* C23: in every state reached by streaming passes, get and set, every     *)
(* resident chunk entry has the bounds of its key and the declared size,   *)
(* and no get or set at a position whose chunk is resident has returned    *)
(* ChunkBoundsInvalid.                                                     *)
ResidentBoundsValid ==
    IsDimension =>
        /\ BoundsOfResidentEntries
        /\ access.result # "ChunkBoundsInvalid"


\* floor(position / chunk size) on each axis
FloorChunk(pos) ==
    <<FloorDiv(pos[1], ChunkSize), FloorDiv(pos[2], ChunkSize),
      FloorDiv(pos[3], ChunkSize)>>

\* the cell lies within CHUNK_RADIUS chunks of the observer's on every axis
WithinChunkRadius(key, pos) ==
    \A a \in 1..3 : Abs(key[a] - FloorChunk(pos)[a]) <= CHUNK_RADIUS

(* C28: the generation pass takes the observer's chunk coordinate to be    *)
(* floor(position / chunk size) on each axis and considers exactly the     *)
(* cells within CHUNK_RADIUS chunks of it: an absent chunk is generated    *)
(* by a pass if and only if, for some observer, it is such a cell and its  *)
(* centre is nearer than CHUNK_DISTANCE.                                   *)
GenerationAroundFloor ==
    [][(IsDimension /\ access' = access) =>
          \A k \in DOMAIN chunks :
              chunks[k] = 0 =>
                  (chunks'[k] # 0 <=>
                      \E i \in 1..Len(observers') :
                          /\ WithinChunkRadius(k, observers'[i])
                          /\ Dist2(chunkpos_to_center(k), observers'[i])
                                < CHUNK_DISTANCE * CHUNK_DISTANCE)]_vars

\* the same with the observer's chunk coordinate as the pass computes it
GenerationAroundTruncated ==
    [][(IsDimension /\ access' = access) =>
          \A k \in DOMAIN chunks :
              chunks[k] = 0 =>
                  (chunks'[k] # 0 <=>
                      \E i \in 1..Len(observers') :
                          Generates(k, observers'[i]))]_vars

---------------------------------------------------------------------------
(* SpecRaycast: one click of Client::update: the raycast loop of the left, *)
(* middle or right button, in the Dimension as the first streaming pass    *)
(* around the player's start position leaves it.  The ray runs along an    *)
(* axis, or down a diagonal on which the stepper may cross either axis     *)
(* next.                                                                   *)

IsRaycast == mode = "raycast"

\* 1 is left mouse, 2 is middle mouse, 3 is right mouse
Buttons == {1, 2, 3}

AxisDirs == {<<1, 0, 0>>, <<-1, 0, 0>>, <<0, 1, 0>>, <<0, -1, 0>>,
             <<0, 0, 1>>, <<0, 0, -1>>}

DiagDir == <<-1, -1, 0>>

RayDirs == AxisDirs \cup {DiagDir}

Plus(p, d) == <<p[1] + d[1], p[2] + d[2], p[3] + d[3]>>

Times(n, d) == <<n * d[1], n * d[2], n * d[3]>>

\* the voxels a ray from PlayerStart can be at within MaxRaySteps steps
RayVoxels ==
    {Plus(PlayerStart, Times(n, d)) : n \in 0..MaxRaySteps, d \in AxisDirs}
        \cup {Plus(PlayerStart, <<-i, -j, 0>>) :
                 i \in 0..MaxRaySteps, j \in 0..MaxRaySteps}

RayKeys == {blockpos_to_chunk(v) : v \in RayVoxels}

RayIds == 1..Cardinality(RayKeys)

\* the chunk map after load_unload_chunks_clientside(PlayerStart) on the
\* empty map
RayChunks ==
    LET none == [k \in RayKeys |-> 0]
    IN Place(none, ToInsert(none, <<PlayerStart>>), RayIds)

RayEntries ==
    [i \in RayIds |->
        IF \E k \in RayKeys : RayChunks[k] = i
        THEN NewEntry(CHOOSE k \in RayKeys : RayChunks[k] = i, RayVoxels)
        ELSE NoEntry]

\* the axes on which the ray advances
StepAxes(dir) == {<<dir[1], 0, 0>>, <<0, dir[2], 0>>, <<0, 0, dir[3]>>}
                     \ {<<0, 0, 0>>}

\* a variant of the stepper that stays where it is
raycast_step_stays(r, d) == [r EXCEPT !.last = d, !.steps = @ + 1]

\* VoxelRaycast::step crossing into the next voxel in direction d
raycast_step(r, d) ==
    [r EXCEPT !.pos = Plus(r.pos, d), !.last = d, !.steps = @ + 1]

\* raycast.pos.get_neighbor(raycast.get_last_direction().opposite())
AdjacentPos(r) == Plus(r.pos, Times(-1, r.last))

\* the body of `while continue_raycast`: get, the match, raycast.step()
RaycastLoop ==
    /\ IsRaycast
    /\ ray.state = "running"
    /\ ray.steps < MaxRaySteps
    /\ LET g == DimensionGet(ray.pos)
           hit == g.result = "Ok" /\ g.value # 0
       IN /\ \E d \in StepAxes(ray.dir) :
                ray' = [raycast_step(ray, d) EXCEPT
                          !.state = IF g.result = "Ok" /\ g.value = 0
                                    THEN "running" ELSE "stopped",
                          !.outcome = IF hit THEN "hit"
                                      ELSE IF g.result # "Ok" THEN "left"
                                      ELSE "none",
                          !.selected_block = IF hit /\ ray.button = 2
                                             THEN g.value ELSE @]
          /\ bus_queue' =
                IF hit /\ ray.button = 1
                THEN Append(bus_queue, SetOne(ray.pos, 0))
                ELSE IF hit /\ ray.button = 3
                THEN Append(bus_queue,
                            SetOne(AdjacentPos(ray), ray.selected_block))
                ELSE bus_queue
    /\ UNCHANGED <<dimVars, pc, running, ticks_due, current_server_tick,
                   drained, results, event_history, serverVars, clientVars,
                   allocVars, poolVars, meshVars, arrayVars, mode, conv,
                   access, registry, timer, renderer>>

InitRaycast ==
    /\ mode = "raycast"
    /\ chunks = RayChunks
    /\ chunk_meshes = [k \in RayKeys |-> NoMesh]
    /\ entries = RayEntries
    /\ observers = <<PlayerStart>>
    /\ pc = "frame" /\ running = TRUE /\ ticks_due = 0 /\ current_server_tick = 1
    /\ bus_queue = <<>> /\ drained = <<>> /\ results = <<>>
    /\ event_history = <<>>
    /\ players = <<>> /\ new_players = <<>>
    /\ sockets = [c \in Conns |-> NoConn]
    /\ player_pos = PlayerStart /\ pending_meshes = <<>>
    /\ workers = [j \in Jobs |-> NoJob]
    /\ update_result = "none" /\ blocked = FALSE
    /\ allocs = {}
    /\ last_call = [op |-> "none", size |-> 0, alignment |-> 0,
                    some |-> FALSE, id |-> 0, offset |-> 0]
    /\ PoolIdle /\ MeshIdle /\ ArrayIdle
    /\ ConvIdle /\ AccessIdle /\ RegistryIdle /\ TimerIdle /\ RendererIdle
    /\ \E b \in Buttons, d \in RayDirs, sb \in 1..MaxBlockID :
          ray = [state |-> "running", button |-> b, dir |-> d,
                 pos |-> PlayerStart, last |-> <<0, 0, 0>>, steps |-> 0,
                 outcome |-> "none", selected_block |-> sb]

NextRaycast == RaycastLoop

SpecRaycast == InitRaycast /\ [][NextRaycast]_vars

\* the thread that runs update goes on through the loop
SpecRaycastFair == SpecRaycast /\ WF_vars(RaycastLoop)


(* C24: raycast termination.  Every break, place or pick raycast loop      *)
(* ends.  While get finds air the loop goes on without sending an event    *)
(* or changing selected_block; at the first position in a chunk that is    *)
(* not loaded (get returns an error) it stops, again without an event and  *)
(* with selected_block as it was.                                          *)
RaycastTerminates ==
    /\ <>(ray.state = "stopped")
    /\ [][(/\ ray.state = "running"
           /\ DimensionGet(ray.pos).result # "Ok") =>
             /\ ray'.state = "stopped" /\ ray'.outcome = "left"
             /\ bus_queue' = bus_queue
             /\ ray'.selected_block = ray.selected_block]_vars
    /\ [][(/\ ray.state = "running"
           /\ DimensionGet(ray.pos).result = "Ok"
           /\ DimensionGet(ray.pos).value = 0) =>
             /\ ray'.state = "running"
             /\ bus_queue' = bus_queue
             /\ ray'.selected_block = ray.selected_block]_vars

\* the left-button ray along +x has passed the 48 voxels up to x = 63 and
\* stopped at x = 64, in chunk (4, 2, 1), which the pass did not load
RaycastTerminatesWitness ==
    /\ IsRaycast
    /\ ray.button = 1 /\ ray.dir = <<1, 0, 0>>
    /\ ray.state = "stopped" /\ ray.outcome = "left"
    /\ ray.steps = 49 /\ ray.pos = <<65, 32, 16>>
    /\ ~Loaded(<<64, 32, 16>>) /\ Loaded(<<63, 32, 16>>)
    /\ bus_queue = <<>>

---------------------------------------------------------------------------
(* SpecConn: the connection threads of server_to_client_step with every    *)
(* kind of packet on their stream and on their channel.                    *)

\* ToServerPacket: Ping, VoxEv, UpdateMyPosition, Disconnect
ToServerPackets ==
    ClientPackets \cup {[type |-> "Ping"], [type |-> "UpdateMyPosition"]}

\* ToClientPacket: Ping, VoxEv, UpdatePlayer, Kick
ToClientPackets ==
    {[type |-> "VoxEv", ev |-> e] : e \in ServerEvents}
        \cup {[type |-> "Ping"], [type |-> "UpdatePlayer"], [type |-> "Kick"]}

RECURSIVE Queued(_)
\* packets on the streams and in the channels of the connections
Queued(cs) ==
    IF cs = {} THEN 0
    ELSE LET c == CHOOSE x \in cs : TRUE
         IN Len(sockets[c].inbound) + Len(sockets[c].recv_from)
                + Len(sockets[c].send_to) + Queued(cs \ {c})

\* the remote client writes one packet of any kind to the stream
PeerWrite(c) ==
    /\ IsServer /\ pc = "idle"
    /\ sockets[c].state = "open"
    /\ Queued(Conns) < MaxEvents
    /\ \E pkt \in ToServerPackets :
          sockets' = [sockets EXCEPT ![c].inbound = Append(@, pkt)]
    /\ UNCHANGED <<dimVars, gameVars, clientVars, libVars, mode, players,
                   new_players>>

\* the holder of the PlayerClient sends one packet of any kind: send_to.send
ChannelSend(c) ==
    /\ IsServer /\ pc = "idle"
    /\ sockets[c].state # "none"
    /\ Queued(Conns) < MaxEvents
    /\ \E pkt \in ToClientPackets :
          sockets' = [sockets EXCEPT ![c] = SendTo(@, <<pkt>>)]
    /\ UNCHANGED <<dimVars, gameVars, clientVars, libVars, mode, players,
                   new_players>>

\* the orchestrator takes what the thread has forwarded: recv_from.try_iter()
ChannelTake(c) ==
    /\ IsServer /\ pc = "idle"
    /\ sockets[c].recv_from # <<>>
    /\ sockets' = [sockets EXCEPT ![c].recv_from = <<>>]
    /\ UNCHANGED <<dimVars, gameVars, clientVars, libVars, mode, players,
                   new_players>>

InitConn ==
    /\ mode = "server"
    /\ chunks = [k \in ServerKeys |-> 0]
    /\ chunk_meshes = [k \in ServerKeys |-> NoMesh]
    /\ entries = [i \in Ids |-> NoEntry]
    /\ observers = <<>>
    /\ Idle

NextConn ==
    \/ \E c \in Conns : ConnAccept(c)
    \/ \E c \in Conns : PeerWrite(c)
    \/ \E c \in Conns : ChannelSend(c)
    \/ \E c \in Conns : ChannelTake(c)
    \/ \E c \in Conns : ConnStep(c)

SpecConn == InitConn /\ [][NextConn]_vars

\* the thread of connection c has run one pass of its loop in this step
Passed(c) ==
    /\ sockets[c].state = "open"
    /\ \/ sockets'[c].state = "closed"
       \/ Len(sockets'[c].inbound) < Len(sockets[c].inbound)
       \/ Len(sockets'[c].send_to) < Len(sockets[c].send_to)

(* C25: connection teardown.  The pass of a connection's loop that decodes *)
(* a Disconnect from its client or writes a Kick to its client is the last *)
(* one: the stream is shut down, and from then on no inbound packet is     *)
(* forwarded to the server and no outbound packet is queued or written.    *)
ConnectionTeardown ==
    [][\A c \in Conns :
          /\ (/\ Passed(c)
              /\ \/ /\ sockets[c].inbound # <<>>
                    /\ Head(sockets[c].inbound).type = "Disconnect"
                 \/ \E i \in 1..Len(sockets[c].send_to) :
                       sockets[c].send_to[i].type = "Kick") =>
                sockets'[c].state = "closed"
          /\ sockets[c].state = "closed" =>
                /\ sockets'[c].state = "closed"
                /\ sockets'[c].inbound = sockets[c].inbound
                /\ sockets'[c].send_to = <<>>
                /\ \/ sockets'[c].recv_from = sockets[c].recv_from
                   \/ sockets'[c].recv_from = <<>>]_vars

\* connection 1 wrote a Kick and was shut down with a packet of its client
\* still unread; connection 2 decoded a Disconnect, forwarded it, and was
\* shut down
ConnectionTeardownWitness ==
    /\ IsServer /\ pc = "idle"
    /\ sockets[1].state = "closed"
    /\ sockets[1].inbound = <<[type |-> "Ping"]>>
    /\ sockets[1].recv_from = <<>>
    /\ sockets[2].state = "closed"
    /\ sockets[2].recv_from = <<[type |-> "Disconnect"]>>

---------------------------------------------------------------------------
(* SpecRegistry: the BlockRegistry under any sequence of register_block    *)
(* calls.  A name is a number in 1..MaxNames; name_to_id is a function on  *)
(* the names registered.                                                   *)

IsRegistry == mode = "registry"

BlockNames == 1..MaxNames

\* a variant of register_block whose ids start at 1
register_block_from_one(reg, name) ==
    IF name \in DOMAIN reg.name_to_id
    THEN [reg EXCEPT !.call = [name |-> name, panicked |-> TRUE, new_id |-> 0]]
    ELSE [id_to_name |-> Append(reg.id_to_name, name),
          name_to_id |-> (name :> Len(reg.id_to_name) + 1) @@ reg.name_to_id,
          call |-> [name |-> name, panicked |-> FALSE,
                    new_id |-> Len(reg.id_to_name) + 1]]

\* BlockRegistry::register_block: the assertion, then new_id = len, push,
\* insert
register_block(reg, name) ==
    IF name \in DOMAIN reg.name_to_id
    THEN [reg EXCEPT !.call = [name |-> name, panicked |-> TRUE, new_id |-> 0]]
    ELSE [id_to_name |-> Append(reg.id_to_name, name),
          name_to_id |-> (name :> Len(reg.id_to_name)) @@ reg.name_to_id,
          call |-> [name |-> name, panicked |-> FALSE,
                    new_id |-> Len(reg.id_to_name)]]

\* MASTER_BLOCK_REGISTRY.lock().register_block(&name)
RegisterBlock ==
    /\ IsRegistry
    /\ \E name \in BlockNames : registry' = register_block(registry, name)
    /\ UNCHANGED <<coreVars, conv, access, ray, timer, renderer>>

InitRegistry ==
    /\ mode = "registry"
    /\ Quiet
    /\ ConvIdle /\ AccessIdle /\ RayIdle /\ TimerIdle /\ RendererIdle
    /\ registry = NoRegistry

NextRegistry == RegisterBlock

SpecRegistry == InitRegistry /\ [][NextRegistry]_vars

\* id_to_name and name_to_id are inverse to each other, with ids from 0
TablesInverse(reg) ==
    /\ DOMAIN reg.name_to_id = {reg.id_to_name[k] : k \in 1..Len(reg.id_to_name)}
    /\ \A k \in 1..Len(reg.id_to_name) :
          reg.name_to_id[reg.id_to_name[k]] = k - 1

(* C26: block registry.  The k-th name registered has id k - 1, the two    *)
(* tables are inverse to each other, and registering a name that is        *)
(* registered already fails its assertion and leaves both tables as they   *)
(* were.                                                                   *)
RegistrySequentialIds ==
    /\ [](IsRegistry => TablesInverse(registry))
    /\ [][IF registry'.call.name \in DOMAIN registry.name_to_id
          THEN /\ registry'.call.panicked
               /\ registry'.id_to_name = registry.id_to_name
               /\ registry'.name_to_id = registry.name_to_id
          ELSE /\ ~registry'.call.panicked
               /\ registry'.call.new_id = Len(registry.id_to_name)
               /\ registry'.id_to_name[registry'.call.new_id + 1]
                     = registry'.call.name
               /\ Len(registry'.id_to_name) = Len(registry.id_to_name) + 1
         ]_vars

\* the names 3, 1 and 2 were registered in this order, then 1 once more
RegistrySequentialIdsWitness ==
    /\ IsRegistry
    /\ registry.id_to_name = <<3, 1, 2>>
    /\ registry.name_to_id[3] = 0 /\ registry.name_to_id[2] = 2
    /\ registry.call = [name |-> 1, panicked |-> TRUE, new_id |-> 0]

---------------------------------------------------------------------------
(* SpecTimestep: the fixed timestep of Game::run.  Time is in              *)
(* milliseconds; timer.elapsed is the sum of what was added to since_tick. *)

IsTimestep == mode = "timestep"

TICK_LENGTH == 50

\* what Instant::now() - last_tick may come to in one iteration
Elapsed == {0, 1, 16, 49, 50, 51, 125}

\* a variant of the loop's test that leaves a full tick unconsumed
tick_due_strictly(since_tick) == since_tick > TICK_LENGTH

\* while since_tick >= TICK_LENGTH
tick_due(since_tick) == since_tick >= TICK_LENGTH

\* since_tick += elapsed, at the top of an outer iteration
TimerElapse ==
    /\ IsTimestep
    /\ timer.pc \in {"top", "end"}
    /\ \E e \in Elapsed :
          /\ timer.elapsed + e <= MaxTime
          /\ timer' = [timer EXCEPT !.pc = "while",
                                    !.since_tick = @ + e,
                                    !.elapsed = @ + e]
    /\ UNCHANGED <<coreVars, conv, access, ray, registry, renderer>>

\* one pass of the inner loop: current_server_tick += 1 and
\* since_tick -= TICK_LENGTH
TimerTick ==
    /\ IsTimestep
    /\ timer.pc = "while"
    /\ tick_due(timer.since_tick)
    /\ timer' = [timer EXCEPT !.ticks = @ + 1,
                              !.since_tick = @ - TICK_LENGTH]
    /\ UNCHANGED <<coreVars, conv, access, ray, registry, renderer>>

\* the inner loop is left and the outer iteration runs to its end
TimerEndIteration ==
    /\ IsTimestep
    /\ timer.pc = "while"
    /\ ~tick_due(timer.since_tick)
    /\ timer' = [timer EXCEPT !.pc = "end"]
    /\ UNCHANGED <<coreVars, conv, access, ray, registry, renderer>>

InitTimestep ==
    /\ mode = "timestep"
    /\ Quiet
    /\ ConvIdle /\ AccessIdle /\ RayIdle /\ RegistryIdle /\ RendererIdle
    /\ timer = [pc |-> "top", since_tick |-> 0, ticks |-> 0, elapsed |-> 0]

NextTimestep == TimerElapse \/ TimerTick \/ TimerEndIteration

SpecTimestep == InitTimestep /\ [][NextTimestep]_vars

(* C27: fixed timestep.  At the end of every outer iteration the           *)
(* accumulator is below 50 ms; the tick counter never decreases; the tick  *)
(* counter times 50 ms plus the accumulator is the time added to the       *)
(* accumulator since the loop began; each tick takes exactly 50 ms off the *)
(* accumulator and adds exactly 1 to the counter.                          *)
FixedTimestep ==
    /\ [](IsTimestep /\ timer.pc = "end" =>
             /\ timer.since_tick >= 0
             /\ timer.since_tick < 50
             /\ timer.ticks * 50 + timer.since_tick = timer.elapsed)
    /\ [][/\ timer'.ticks >= timer.ticks
          /\ timer'.ticks # timer.ticks =>
                /\ timer'.ticks = timer.ticks + 1
                /\ timer'.since_tick = timer.since_tick - 50
                /\ timer'.elapsed = timer.elapsed
          /\ timer'.ticks = timer.ticks =>
                timer'.since_tick - timer.since_tick
                   = timer'.elapsed - timer.elapsed
         ]_vars

\* an iteration that ran three ticks at once ends with 1 ms left over
FixedTimestepWitness ==
    /\ IsTimestep
    /\ timer.pc = "end"
    /\ timer.elapsed = 251
    /\ timer.ticks = 5
    /\ timer.since_tick = 1

---------------------------------------------------------------------------
\* every key of the mesh cache is a loaded position, in the next state
MeshKeysLoaded == \A k \in DOMAIN chunk_meshes' : chunk_meshes'[k] # NoMesh => chunks'[k] # 0

(* C29: after every per-frame update of the client, every key of the mesh  *)
(* cache is a chunk position that is loaded in the Dimension.  An update   *)
(* ends with the step that brings run back to the top of its loop.         *)
MeshCacheKeysLoaded ==
    [][IsClient /\ pc \in {"frame", "harvest"} /\ pc' = "loop" => MeshKeysLoaded]_vars

\* the same for the updates that run to their end and return Ok
MeshCacheKeysLoadedOnOk ==
    [][IsClient /\ pc = "harvest" /\ pc' = "loop" => MeshKeysLoaded]_vars

\* an update has dropped the mesh of a chunk that the last tick unloaded,
\* and kept another
MeshCacheKeysLoadedOnOkWitness ==
    /\ IsClient
    /\ pc = "loop"
    /\ update_result \in {"continue", "stop"}
    /\ \E k \in DOMAIN chunk_meshes : chunk_meshes[k] # NoMesh
    /\ \E k \in DOMAIN chunk_meshes : chunks[k] = 0 /\ \E j \in Jobs : workers[j].key = k /\ workers[j].wpc = "exited"

---------------------------------------------------------------------------
(* C30: after any sequence of alloc and free calls, with any sizes and     *)
(* any alignments, the live ranges of the allocator are pairwise           *)
(* disjoint.                                                               *)
LiveRangesDisjoint ==
    mode = "alloc" =>
       \A r \in allocs : \A q \in allocs :
          r.id # q.id => (r.end <= q.start \/ q.end <= r.start)

---------------------------------------------------------------------------
(* C31: after any sequence of alloc and free calls every live range lies   *)
(* within the arena: its end is at most the allocator's size, also when    *)
(* the end of a block, rounded up to the alignment asked for, lies beyond  *)
(* the size.                                                               *)
LiveRangesWithinArena ==
    mode = "alloc" => \A r \in allocs : r.start >= 0 /\ r.end <= PoolSize

\* the same for the calls whose alignment divides the arena's size
LiveRangesWithinArenaDividing ==
    [][mode = "alloc" /\ last_call'.op = "alloc"
          /\ (\A r \in allocs : r.end <= PoolSize)
          /\ (last_call'.alignment = 0 \/ PoolSize % last_call'.alignment = 0)
       => \A r \in allocs' : r.end <= PoolSize]_vars

(* C32: every offset that alloc(size, alignment) returns with an alignment *)
(* of 1 or more is a multiple of the alignment.                            *)
OffsetAligned ==
    (mode = "alloc" /\ last_call.op = "alloc" /\ last_call.some
        /\ last_call.alignment >= 1)
    => last_call.offset % last_call.alignment = 0

\* alloc(1, 2) was given offset 2 behind a block that ends at 1
OffsetAlignedWitness ==
    /\ mode = "alloc"
    /\ last_call = [op |-> "alloc", size |-> 1, alignment |-> 2,
                    some |-> TRUE, id |-> 2, offset |-> 2]
    /\ \E r \in allocs : r.id = 1 /\ r.start = 0 /\ r.end = 1
    /\ \E r \in allocs : r.id = 2 /\ r.start = 2 /\ r.end = 3

---------------------------------------------------------------------------
\* the block that a step of the allocating thread returned
Returned(b) == b \in blocks' /\ b \notin HeldBlocks

(* C33: PoolAllocator::alloc creates a chunk exactly when the allocator of *)
(* every chunk there is has returned None for the request; the new chunk's *)
(* id differs from the id of every chunk there is; the block returned      *)
(* names the chunk whose allocator recorded its range.                     *)
NewChunkWhenAllFull ==
    /\ [][IsPool /\ LiveChunks' # LiveChunks =>
            /\ alloc_thread.pc = "iterating"
            /\ LiveChunks \subseteq alloc_thread.tried
            /\ \E c \in PoolChunkIds \ LiveChunks :
                  /\ LiveChunks' = LiveChunks \cup {c}
                  /\ \E b \in blocks' :
                        /\ Returned(b) /\ b.chunk = c
                        /\ pool_chunks'[c].allocs = {EntryOf(b)}]_vars
    /\ [][IsPool /\ alloc_thread.pc = "iterating"
             /\ LiveChunks \subseteq alloc_thread.tried
             /\ alloc_thread' # alloc_thread
          => \/ LiveChunks' # LiveChunks
             \/ LiveChunks = PoolChunkIds /\ alloc_thread'.pc = "panicked"]_vars
    /\ [][IsPool /\ alloc_thread.pc = "in_chunk" /\ alloc_thread' # alloc_thread
          => LET c == alloc_thread.chunk
             IN /\ LiveChunks' = LiveChunks
                /\ \/ /\ alloc_thread'.pc = "iterating"
                      /\ alloc_thread'.tried = alloc_thread.tried \cup {c}
                      /\ blocks' = blocks
                      /\ pool_chunks'[c].allocs = pool_chunks[c].allocs
                   \/ /\ alloc_thread' = NoRequest
                      /\ \E b \in blocks' :
                            /\ Returned(b) /\ b.chunk = c
                            /\ blocks' = blocks \cup {b}
                            /\ EntryOf(b) \notin pool_chunks[c].allocs
                            /\ pool_chunks'[c].allocs =
                                  pool_chunks[c].allocs \cup {EntryOf(b)}]_vars

\* chunk 1 is full, the request found no room in it, and chunk 2 was
\* created for the block returned
NewChunkWhenAllFullWitness ==
    /\ IsPool
    /\ alloc_thread = NoRequest
    /\ LiveChunks = {1, 2}
    /\ pool_chunks[1].allocs = {[id |-> 1, start |-> 0, end |-> PoolSize]}
    /\ pool_chunks[2].allocs = {[id |-> 1, start |-> 0, end |-> 1]}
    /\ [chunk |-> 2, id |-> 1, offset |-> 0, size |-> 1] \in blocks

---------------------------------------------------------------------------
\* the events of event_history, as a set
Recorded == {event_history[i] : i \in 1..Len(event_history)}

(* C34: only the voxel events whose application succeeded are appended to  *)
(* the server's event history and sent to the players.  An event whose     *)
(* apply_event returned an error is not recorded, is sent to no client,    *)
(* and leaves the Dimension as it was.                                     *)
OnlySuccessRecorded ==
    /\ [][IsServer /\ Len(results') = Len(results) + 1 =>
            LET e == drained[Len(results) + 1]
                r == results'[Len(results')]
            IN IF r = "Ok"
               THEN event_history' = Append(event_history, e)
               ELSE /\ event_history' = event_history
                    /\ \A c \in Conns : sockets'[c].send_to = sockets[c].send_to
                    /\ entries' = entries
                    /\ chunks' = chunks]_vars
    /\ [][IsServer /\ event_history' # event_history =>
            /\ Len(results') = Len(results) + 1
            /\ results'[Len(results')] = "Ok"]_vars
    /\ [](IsServer => \A c \in Conns :
            \A i \in 1..Len(sockets[c].send_to) :
               sockets[c].send_to[i].type = "VoxEv"
                  => sockets[c].send_to[i].ev \in Recorded)

\* a connected player's event failed in this tick and nothing was
\* recorded or sent
OnlySuccessRecordedWitness ==
    /\ IsServer
    /\ pc = "apply"
    /\ players # <<>>
    /\ sockets[players[1]].state = "open"
    /\ results # <<>>
    /\ results[Len(results)] # "Ok"
    /\ event_history = <<>>
    /\ \A c \in Conns : sockets[c].send_to = <<>>

---------------------------------------------------------------------------
\* the connections that Game.players holds
PlayerSet == {players[i] : i \in 1..Len(players)}

\* s is the end of t
IsSuffix(s, t) ==
    /\ Len(s) <= Len(t)
    /\ SubSeq(t, Len(t) - Len(s) + 1, Len(t)) = s

\* the history as the packets that carry it
AsPackets(evs) == [i \in 1..Len(evs) |-> VoxEvPacket(evs[i])]

(* C35: late-join consistency.  A client the server accepts is sent every  *)
(* event of the history, in order and once each, before any later event;   *)
(* every later successful event is appended to its queue once; nothing     *)
(* else is queued.  So the VoxEv packets queued to a player, in all, are   *)
(* the successfully applied events in the order of application.            *)
LateJoinConsistency ==
    /\ [][IsServer => \A c \in Conns :
            LET open == sockets[c].state = "open" /\ sockets'[c].state = "open"
                old  == sockets[c].send_to
                new  == sockets'[c].send_to
            IN /\ (c \notin PlayerSet /\ c \in PlayerSet' /\ open)
                     => /\ old = <<>>
                        /\ new = AsPackets(event_history)
                        /\ event_history' = event_history
               /\ (c \in PlayerSet /\ open /\ event_history' # event_history)
                     => /\ Len(event_history') = Len(event_history) + 1
                        /\ new = Append(old,
                              VoxEvPacket(event_history'[Len(event_history')]))
               /\ new # old
                     => \/ new = <<>>
                        \/ c \notin PlayerSet /\ c \in PlayerSet'
                        \/ c \in PlayerSet /\ event_history' # event_history]_vars
    /\ [](IsServer => \A c \in Conns :
            /\ c \notin PlayerSet => sockets[c].send_to = <<>>
            /\ c \in Connected =>
                  IsSuffix(VoxEvs(sockets[c].send_to), event_history))

\* the second player was sent both events of the history in order; the
\* first player's queue holds the later one only
LateJoinConsistencyWitness ==
    /\ IsServer
    /\ players = <<1, 2>>
    /\ Connected = {1, 2}
    /\ event_history = <<SetOne(<<6, 0, 7>>, 0), SetOne(<<6, 0, 7>>, 1)>>
    /\ sockets[2].send_to = AsPackets(event_history)
    /\ sockets[1].send_to = <<VoxEvPacket(event_history[2])>>

---------------------------------------------------------------------------
\* a job for the chunk position k is in the in-flight list
InFlightFor(k) ==
    \E i \in 1..Len(pending_meshes) : workers[pending_meshes[i]].key = k

---------------------------------------------------------------------------
(* The client with threads that run: every meshing thread that can take a  *)
(* step takes it in the end.                                               *)
SpecClientFair ==
    /\ SpecClient
    /\ \A j \in Jobs : WF_vars(WorkerLock(j))
    /\ \A j \in Jobs : WF_vars(WorkerComplete(j))
    /\ \A j \in Jobs : WF_vars(WorkerClean(j))

\* job j is in the in-flight list
Pending(j) == \E i \in 1..Len(pending_meshes) : pending_meshes[i] = j

\* the jobs behind place i of the in-flight list that are for the same
\* position and whose slot is full
LaterDone(i) ==
    {pending_meshes[n] : n \in {m \in (i + 1)..Len(pending_meshes) :
        /\ workers[pending_meshes[m]].key = workers[pending_meshes[i]].key
        /\ workers[pending_meshes[m]].slot # NoMesh}}

(* C37: every meshing job of the in-flight list is harvested exactly once. *)
(* A poll that finds the slot empty (or locked) leaves the job in the      *)
(* list; a poll that finds the mesh takes it out of the slot, inserts it   *)
(* in the mesh cache and removes the job; and where the workers complete   *)
(* and updates keep harvesting, every job leaves the list in the end.      *)
HarvestedOnce ==
    /\ [][IsClient /\ pc = "harvest" /\ pc' = "loop" =>
            /\ \A i \in 1..Len(pending_meshes) :
                  LET j == pending_meshes[i]
                      k == workers[j].key
                  IN IF workers[j].slot = NoMesh
                     THEN /\ \E n \in 1..Len(pending_meshes') :
                                pending_meshes'[n] = j
                          /\ workers'[j] = workers[j]
                     ELSE /\ \A n \in 1..Len(pending_meshes') :
                                pending_meshes'[n] # j
                          /\ workers'[j].slot = NoMesh
                          /\ IF chunks[k] = 0 THEN chunk_meshes'[k] = NoMesh
                             ELSE IF LaterDone(i) = {}
                                  THEN chunk_meshes'[k] = workers[j].slot
                                  ELSE \E l \in LaterDone(i) :
                                          chunk_meshes'[k] = workers[l].slot
            /\ \A k \in DOMAIN chunk_meshes :
                  chunk_meshes'[k] \in {chunk_meshes[k], NoMesh}
                     \/ \E i \in 1..Len(pending_meshes) :
                           /\ workers[pending_meshes[i]].key = k
                           /\ workers[pending_meshes[i]].slot = chunk_meshes'[k]
            /\ Len(pending_meshes') <= Len(pending_meshes)]_vars
    /\ [][IsClient /\ ~(pc = "harvest" /\ pc' = "loop") =>
            /\ chunk_meshes' = chunk_meshes
            /\ \A j \in Jobs : Pending(j) => Pending(j)']_vars
    /\ [](IsClient => \A m, n \in 1..Len(pending_meshes) :
            m # n => pending_meshes[m] # pending_meshes[n])
    /\ \A j \in Jobs :
          []<><<UpdateHarvest>>_vars => (Pending(j) ~> ~Pending(j))

\* of two full slots polled by one update the first job's mesh went into
\* the cache and the other job is still in the list
HarvestedOnceWitness ==
    /\ IsClient
    /\ pc = "loop"
    /\ Len(pending_meshes) = 1
    /\ workers[pending_meshes[1]].slot = NoMesh
    /\ \E k \in DOMAIN chunk_meshes :
          /\ chunk_meshes[k] # NoMesh
          /\ workers[pending_meshes[1]].key # k
          /\ \A j \in Jobs : workers[j].key # k

---------------------------------------------------------------------------
\* the observer lists a pass of SpecStream is run with
StreamObservers ==
    {<<p>> : p \in StreamPositions} \cup SeqsUpTo(DiagPositions, MaxPlayers)

\* the keys a map holds
KeysOf(ch) == {k \in DOMAIN ch : ch[k] # 0}

\* the keys the retain of a pass removes from the map ch
Removed(ch, obs) == KeysOf(ch) \ KeysOf(Retained(ch, obs))

\* the keys the map holds after a pass
AfterPass(ch, obs) ==
    KeysOf(Retained(ch, obs)) \cup ToInsert(Retained(ch, obs), obs)

\* a map that holds the keys ks
MapOf(ks) == [k \in DOMAIN chunks |-> IF k \in ks THEN 1 ELSE 0]

(* C38: no flapping for a stationary observer.  For any observer position  *)
(* (or list of positions) and any loaded set, the pass run twice leaves    *)
(* the loaded set of the pass run once: the second pass removes nothing,   *)
(* so no chunk the first generated, and generates nothing, so no chunk the *)
(* first removed.                                                          *)
NoFlapping ==
    /\ [](mode = "stream" => \A obs \in StreamObservers :
            LET once == MapOf(AfterPass(chunks, obs))
            IN /\ AfterPass(once, obs) = KeysOf(once)
               /\ Removed(once, obs) = {}
               /\ ToInsert(Retained(once, obs), obs) = {})
    /\ [][mode = "stream" /\ observers' = observers =>
             chunks' = chunks /\ entries' = entries]_vars

\* chunk (0,0,0) is loaded after a pass whose only observer stood just
\* inside the generation radius of its centre (3 * 36^2 = 3888, 62.4^2)
NoFlappingWitness ==
    /\ mode = "stream"
    /\ chunks[<<0, 0, 0>>] # 0
    /\ observers = <<Diag(36)>>
    /\ AfterPass(chunks, observers) = KeysOf(chunks)

---------------------------------------------------------------------------
(* C39: serverside retention.  A serverside pass removes a loaded chunk    *)
(* exactly when its centre is 68.0 or farther from every observer of the   *)
(* list; with an empty list every loaded chunk is removed and none is      *)
(* generated.                                                              *)
ServersideRetention ==
    [][mode = "stream" =>
         /\ \A k \in DOMAIN chunks :
               chunks[k] # 0 =>
                  /\ chunks'[k] \in {0, chunks[k]}
                  /\ chunks'[k] = 0 <=>
                        \A i \in 1..Len(observers') :
                           Dist2(chunkpos_to_center(k), observers'[i])
                              >= 68 * 68
         /\ observers' = <<>> => \A k \in DOMAIN chunks : chunks'[k] = 0]_vars

\* chunk (0,0,0) is loaded after a pass with two observers, one 69.3 from
\* its centre and one 65.8, neither of whom would generate it
ServersideRetentionWitness ==
    /\ mode = "stream"
    /\ chunks[<<0, 0, 0>>] # 0
    /\ observers = <<Diag(40), Diag(38)>>


\* ---------------------------------------------------------------------
\* Renderer::draw (renderer.rs): the swapchain is recreated when an earlier
\* frame found it out of date.  One frame is followed through its steps:
\* the recreate block, the framebuffer rebuild, acquire_next_image, the two
\* command buffers, and the flush of the submitted frame.
\* ---------------------------------------------------------------------

IsRenderer == mode = "renderer"

\* The inner sizes the window may have when a frame starts.
WindowSizes == {1, 2}

\* The recreate block, without its last three assignments.
recreate_keeping_framebuffers(r, dimensions) ==
    [r EXCEPT !.swapchain = [generation |-> r.swapchain.generation + 1, dimensions |-> dimensions],
              !.depth_buffer = [generation |-> r.swapchain.generation + 1, dimensions |-> dimensions]]

\* The recreate block when recreate_with_dimension succeeds: a new swapchain
\* with new images, a new depth buffer of the same extent, both framebuffer
\* sets dropped, the flag cleared.
recreate(r, dimensions) ==
    [r EXCEPT !.swapchain = [generation |-> r.swapchain.generation + 1, dimensions |-> dimensions],
              !.depth_buffer = [generation |-> r.swapchain.generation + 1, dimensions |-> dimensions],
              !.framebuffers = NoFramebuffers,
              !.framebuffers_lines = NoFramebuffers,
              !.recreate_swapchain = FALSE]

\* A framebuffer set built now: one framebuffer per image of self.images,
\* each with self.depth_buffer.
new_framebuffers(r) ==
    [images |-> r.swapchain.generation, depth_buffer |-> r.depth_buffer.generation]

\* draw, up to the end of the recreate block.  With the flag set,
\* recreate_with_dimension either succeeds or fails with
\* UnsupportedDimensions, and then draw returns.
DrawRecreate ==
    /\ IsRenderer
    /\ renderer.pc = "draw"
    /\ \E dimensions \in WindowSizes, result \in {"Ok", "UnsupportedDimensions"} :
          LET r == [renderer EXCEPT !.built = <<>>, !.outcome = "drawing"] IN
          IF ~renderer.recreate_swapchain
            THEN renderer' = [r EXCEPT !.pc = "framebuffers"]
            ELSE IF result = "Ok"
                   THEN /\ renderer.swapchain.generation < MaxSwapchains
                        /\ renderer' = [recreate(r, dimensions) EXCEPT !.pc = "framebuffers"]
                   ELSE renderer' = [r EXCEPT !.outcome = "UnsupportedDimensions"]
    /\ UNCHANGED <<coreVars, conv, access, ray, registry, timer>>

\* Both framebuffer sets, each rebuilt if it is None.
DrawFramebuffers ==
    /\ IsRenderer
    /\ renderer.pc = "framebuffers"
    /\ renderer' = [renderer EXCEPT
          !.framebuffers = IF @ = NoFramebuffers THEN new_framebuffers(renderer) ELSE @,
          !.framebuffers_lines = IF @ = NoFramebuffers THEN new_framebuffers(renderer) ELSE @,
          !.pc = "acquire"]
    /\ UNCHANGED <<coreVars, conv, access, ray, registry, timer>>

\* acquire_next_image: an image, or OutOfDate, which sets the flag and
\* returns.
DrawAcquire ==
    /\ IsRenderer
    /\ renderer.pc = "acquire"
    /\ \E result \in {"Ok", "OutOfDate"} :
          renderer' = IF result = "Ok"
                        THEN [renderer EXCEPT !.pc = "build"]
                        ELSE [renderer EXCEPT !.recreate_swapchain = TRUE, !.pc = "draw",
                                              !.outcome = "AcquireError::OutOfDate"]
    /\ UNCHANGED <<coreVars, conv, access, ray, registry, timer>>

\* cb and cb_lines, each beginning its render pass on the acquired image's
\* framebuffer of its set.
DrawBuild ==
    /\ IsRenderer
    /\ renderer.pc = "build"
    /\ renderer' = [renderer EXCEPT !.built = <<renderer.framebuffers, renderer.framebuffers_lines>>,
                                    !.pc = "flush"]
    /\ UNCHANGED <<coreVars, conv, access, ray, registry, timer>>

\* The frame is submitted and flushed: presented, out of date (the flag is
\* set), or another error (printed).
DrawFlush ==
    /\ IsRenderer
    /\ renderer.pc = "flush"
    /\ \E result \in {"Ok", "OutOfDate", "Err"} :
          renderer' = [renderer EXCEPT
              !.recreate_swapchain = IF result = "OutOfDate" THEN TRUE ELSE @,
              !.outcome = IF result = "OutOfDate" THEN "FlushError::OutOfDate" ELSE result,
              !.pc = "draw"]
    /\ UNCHANGED <<coreVars, conv, access, ray, registry, timer>>

\* Renderer::new: the first swapchain and a depth buffer of its extent, no
\* framebuffers, the flag clear.
InitRenderer ==
    /\ mode = "renderer"
    /\ Quiet
    /\ ConvIdle /\ AccessIdle /\ RayIdle /\ RegistryIdle /\ TimerIdle
    /\ \E dimensions \in WindowSizes :
          renderer = [pc |-> "draw",
                      swapchain |-> [generation |-> 1, dimensions |-> dimensions],
                      depth_buffer |-> [generation |-> 1, dimensions |-> dimensions],
                      framebuffers |-> NoFramebuffers,
                      framebuffers_lines |-> NoFramebuffers,
                      recreate_swapchain |-> FALSE,
                      built |-> <<>>,
                      outcome |-> "none"]

NextRenderer == DrawRecreate \/ DrawFramebuffers \/ DrawAcquire \/ DrawBuild \/ DrawFlush

SpecRenderer == InitRenderer /\ [][NextRenderer]_vars

\* A framebuffer set is current when it was built from the swapchain's
\* images and the depth buffer the renderer holds now.
Current(fb) == fb = new_framebuffers(renderer)

\* C40: swapchain recovery.  A draw that starts with the stale flag set and
\* goes on has a new swapchain and a new depth buffer of the window's
\* extent, no framebuffers and a clear flag, and has built no command
\* buffer; one that returns at once failed with unsupported dimensions,
\* keeps the flag set and the swapchain it had, and has built nothing; and
\* whenever the command buffers of a frame are built, the flag is clear and
\* both framebuffer sets used are those of the current swapchain images and
\* depth buffer.
SwapchainRecovery ==
    /\ [](IsRenderer /\ renderer.built # <<>> /\ renderer.pc = "flush" =>
            /\ ~renderer.recreate_swapchain
            /\ Current(renderer.built[1])
            /\ Current(renderer.built[2]))
    /\ [](IsRenderer /\ renderer.pc \in {"acquire", "build", "flush"} =>
            /\ Current(renderer.framebuffers)
            /\ Current(renderer.framebuffers_lines)
            /\ renderer.depth_buffer.dimensions = renderer.swapchain.dimensions)
    /\ [][IsRenderer /\ renderer.pc = "draw" /\ renderer.recreate_swapchain =>
            \/ /\ renderer'.pc = "framebuffers"
               /\ renderer'.swapchain.generation # renderer.swapchain.generation
               /\ renderer'.depth_buffer.generation # renderer.depth_buffer.generation
               /\ renderer'.depth_buffer.dimensions = renderer'.swapchain.dimensions
               /\ renderer'.framebuffers = NoFramebuffers
               /\ renderer'.framebuffers_lines = NoFramebuffers
               /\ ~renderer'.recreate_swapchain
               /\ renderer'.built = <<>>
            \/ /\ renderer'.pc = "draw"
               /\ renderer'.outcome = "UnsupportedDimensions"
               /\ renderer'.recreate_swapchain
               /\ renderer'.swapchain = renderer.swapchain
               /\ renderer'.built = <<>>]_vars

\* The command buffers of a frame are built on the third swapchain, made
\* for the larger window.
SwapchainRecoveryWitness ==
    /\ IsRenderer
    /\ renderer.pc = "flush"
    /\ renderer.swapchain.generation = 3
    /\ renderer.swapchain.dimensions = 2
    /\ renderer.built = <<new_framebuffers(renderer), new_framebuffers(renderer)>>

====
